---- MODULE Spec2Model ----
(***************************************************************************)
(* Bitboard chess engine (packages bitboarder and chess).                   *)
(*                                                                         *)
(* A 64-bit bitboard is modelled as the set of its set bits (squares       *)
(* 0..63): & is \cap, | is \cup, ^ is symmetric difference and not64 is    *)
(* the complement within 0..63.  A Zobrist hash is the XOR of random       *)
(* 64-bit keys; it is modelled as the set of the keys that occur an odd    *)
(* number of times (XOR is symmetric difference), each key named by its    *)
(* index in the key tables.                                                *)
(***************************************************************************)
EXTENDS Integers, Sequences, FiniteSets, TLC

\* ---------------------------------------------------------------- literals
BLACK == 0
WHITE == 1

PAWN == 0
ROOK == 1
BISHOP == 2
KNIGHT == 3
QUEEN == 4
KING == 5

ACTIVE == 0
DRAW == 1
CHECKMATE == 2

W_KINGSIDE == 8
W_QUEENSIDE == 4
B_KINGSIDE == 2
B_QUEENSIDE == 1

\* Python's None for a square / a promotion, and for a piece_map lookup
None == -1
NoPiece == <<>>

Squares == 0..63
Colors == {BLACK, WHITE}
Kinds == 0..5
FULL == Squares

\* ---------------------------------------------------------------- bit_utils
Min(S) == CHOOSE x \in S : \A y \in S : x <= y
Max(S) == CHOOSE x \in S : \A y \in S : x >= y

lsb(bb) == IF bb = {} THEN -1 ELSE Min(bb)
msb(bb) == IF bb = {} THEN -1 ELSE Max(bb)
mask(sq) == {sq}
not64(x) == Squares \ x
Xor(a, b) == (a \ b) \cup (b \ a)

\* castling_rights is a 4-bit integer
HasBit(x, b) == (x \div b) % 2 = 1
ClearBit(x, b) == IF HasBit(x, b) THEN x - b ELSE x
SetBit(x, b) == IF HasBit(x, b) THEN x ELSE x + b

opp_color(c) == 1 - c

\* ---------------------------------------------------------------- mask_gens
FileOf(sq) == sq % 8
RankOf(sq) == sq \div 8
OnBoard(f, r) == f >= 0 /\ f < 8 /\ r >= 0 /\ r < 8

KnightDeltas == {<<-2, -1>>, <<-2, 1>>, <<-1, -2>>, <<-1, 2>>,
                 <<1, -2>>, <<1, 2>>, <<2, -1>>, <<2, 1>>}
KingDeltas == {<<-1, -1>>, <<0, -1>>, <<1, -1>>, <<-1, 0>>,
               <<1, 0>>, <<-1, 1>>, <<0, 1>>, <<1, 1>>}

DeltaMask(sq, deltas) ==
    {(RankOf(sq) + d[2]) * 8 + FileOf(sq) + d[1] :
        d \in {e \in deltas : OnBoard(FileOf(sq) + e[1], RankOf(sq) + e[2])}}

gen_knight_mask(sq) == DeltaMask(sq, KnightDeltas)
gen_king_mask(sq) == DeltaMask(sq, KingDeltas)

gen_ray_mask(sq, df, dr) ==
    {(RankOf(sq) + dr * st) * 8 + FileOf(sq) + df * st :
        st \in {s \in 1..7 : OnBoard(FileOf(sq) + df * s, RankOf(sq) + dr * s)}}

gen_pawn_atk_mask(sq, color) ==
    DeltaMask(sq, {<<-1, IF color = WHITE THEN 1 ELSE -1>>,
                   <<1, IF color = WHITE THEN 1 ELSE -1>>})

gen_pawn_push_mask(sq, color) ==
    LET target == sq + (IF color = WHITE THEN 8 ELSE -8)
    IN  IF target >= 0 /\ target < 64 THEN {target} ELSE {}

gen_pawn_double_push_mask(sq, color) ==
    LET start_rank == IF color = WHITE THEN 1 ELSE 6
        target_sq == sq + (IF color = WHITE THEN 16 ELSE -16)
    IN  IF RankOf(sq) # start_rank THEN {}
        ELSE IF target_sq >= 0 /\ target_sq < 64 THEN {target_sq} ELSE {}

\* ---------------------------------------------------------------- consts
KNIGHT_MASKS == [sq \in Squares |-> gen_knight_mask(sq)]
KING_MASKS == [sq \in Squares |-> gen_king_mask(sq)]
PAWN_PROMOTION_RANK == [c \in Colors |-> IF c = WHITE THEN 56..63 ELSE 0..7]
PAWN_START_RANK == [c \in Colors |-> IF c = WHITE THEN 8..15 ELSE 48..55]
PAWN_ATK_MASKS == [c \in Colors |-> [sq \in Squares |-> gen_pawn_atk_mask(sq, c)]]
PAWN_SINGLE_PUSH_MASKS == [c \in Colors |-> [sq \in Squares |-> gen_pawn_push_mask(sq, c)]]
PAWN_DOUBLE_PUSH_MASKS == [c \in Colors |-> [sq \in Squares |-> gen_pawn_double_push_mask(sq, c)]]

DirNames == {"N", "S", "E", "W", "NE", "NW", "SE", "SW"}
DIRECTIONS ==
    [d \in DirNames |->
        CASE d = "N" -> <<0, 1>>
          [] d = "S" -> <<0, -1>>
          [] d = "E" -> <<1, 0>>
          [] d = "W" -> <<-1, 0>>
          [] d = "NE" -> <<1, 1>>
          [] d = "NW" -> <<-1, 1>>
          [] d = "SE" -> <<1, -1>>
          [] d = "SW" -> <<-1, -1>>]

RAYS == [d \in DirNames |->
            [sq \in Squares |-> gen_ray_mask(sq, DIRECTIONS[d][1], DIRECTIONS[d][2])]]

ROOK_DIRECTIONS == {"N", "S", "W", "E"}
BISHOP_DIRECTIONS == {"NW", "NE", "SW", "SE"}
QUEEN_DIRECTIONS == ROOK_DIRECTIONS \cup BISHOP_DIRECTIONS
POSITIVE_DIRECTIONS == {"N", "NE", "E", "NW"}

Sliders == {ROOK, BISHOP, QUEEN}
DIRECTIONS_MAP ==
    [k \in Sliders |->
        CASE k = ROOK -> ROOK_DIRECTIONS
          [] k = BISHOP -> BISHOP_DIRECTIONS
          [] k = QUEEN -> QUEEN_DIRECTIONS]

\* RAYS_DIRECTIONS_MAP.get(from_sq, {}).get(to_sq): the direction, or "" for None
RAYS_DIRECTIONS_MAP ==
    [a \in Squares |-> [b \in Squares |->
        LET Get(directions) == IF directions = {} THEN ""
                               ELSE CHOOSE d \in directions : TRUE
        IN  Get({d \in DirNames : b \in RAYS[d][a]})]]

\* ---------------------------------------------------------------- utils
\* ray_between(sq1, sq2): squares strictly between, 0 when not on a shared ray
ray_between_tab ==
    [a \in Squares |-> [b \in Squares |->
        LET Along(d) == IF d = "" THEN {}
                        ELSE Xor(RAYS[d][a], RAYS[d][b]) \cap not64(mask(b))
        IN  Along(RAYS_DIRECTIONS_MAP[a][b])]]

ray_between(sq1, sq2) == ray_between_tab[sq1][sq2]

is_along_ray_of_origin(a, b, c) ==
    \E d \in DirNames : b \in RAYS[d][a]

is_along_ray(a, b, c) ==
    \E d \in DirNames : b \in RAYS[d][a] /\ c \in RAYS[d][a]

\* ---------------------------------------------------------------- Move
Move(from_sq, to_sq, promotion) ==
    [from_sq |-> from_sq, to_sq |-> to_sq, promotion |-> promotion]

\* piece_map is a total function on the squares; NoPiece marks a missing key
PieceAt(piece_map, sq) ==
    IF sq \in Squares THEN piece_map[sq] ELSE NoPiece
Keys(piece_map) == {sq \in Squares : piece_map[sq] # NoPiece}
KindOf(piece) == piece[1]
ColorOf(piece) == piece[2]

AllOccupied(b) == b.occupied[BLACK] \cup b.occupied[WHITE]

\* ---------------------------------------------------------------- AttackMapGenerator
\* the part of a ray up to and including the nearest blocker
RayToBlocker(direction, sq, all_occupied) ==
    LET blocker_sq(blockers) == IF direction \in POSITIVE_DIRECTIONS
                                THEN lsb(blockers) ELSE msb(blockers)
        Cut(ray, blockers) == IF blockers = {} THEN ray
                              ELSE Xor(ray, RAYS[direction][blocker_sq(blockers)])
        Of(ray) == Cut(ray, ray \cap all_occupied)
    IN  Of(RAYS[direction][sq])

gen_sliding_map(b, bitpos, piece) ==
    UNION {RayToBlocker(d, bitpos, AllOccupied(b)) : d \in DIRECTIONS_MAP[KindOf(piece)]}

get_map(b, bitpos) ==
    LET Of(piece) ==
            IF piece = NoPiece THEN {}
            ELSE CASE KindOf(piece) = PAWN -> PAWN_ATK_MASKS[ColorOf(piece)][bitpos]
                   [] KindOf(piece) = KNIGHT -> KNIGHT_MASKS[bitpos]
                   [] KindOf(piece) = KING -> KING_MASKS[bitpos]
                   [] OTHER -> gen_sliding_map(b, bitpos, piece)
    IN  Of(PieceAt(b.piece_map, bitpos))

get_all_maps(b) ==
    [c \in Colors |->
        UNION {get_map(b, sq) : sq \in {s \in Keys(b.piece_map) : ColorOf(b.piece_map[s]) = c}}]

\* ---------------------------------------------------------------- PseudoLegalMoveGenerator
PromotionKinds == {ROOK, BISHOP, KNIGHT, QUEEN}

add_pawn_promotion_moves(bitpos, to_sq) ==
    {Move(bitpos, to_sq, promo) : promo \in PromotionKinds}

PawnTargetMoves(bitpos, to_sq, color) ==
    IF to_sq \in PAWN_PROMOTION_RANK[color]
    THEN add_pawn_promotion_moves(bitpos, to_sq)
    ELSE {Move(bitpos, to_sq, None)}

add_pawn_push(b, bitpos, color) ==
    LET Push(all_occupied, target_bb_single, target_bb_double) ==
            IF target_bb_single \cap all_occupied = {}
            THEN PawnTargetMoves(bitpos, lsb(target_bb_single), color)
                 \cup (IF bitpos \in PAWN_START_RANK[color]
                          /\ target_bb_double \cap all_occupied = {}
                       THEN {Move(bitpos, lsb(target_bb_double), None)}
                       ELSE {})
            ELSE {}
    IN  Push(AllOccupied(b), PAWN_SINGLE_PUSH_MASKS[color][bitpos],
             PAWN_DOUBLE_PUSH_MASKS[color][bitpos])

add_pawn_captures(b, bitpos, color) ==
    LET Captures(target_bb_atk, ep_sq) ==
            UNION {PawnTargetMoves(bitpos, to_sq, color) :
                     to_sq \in target_bb_atk \cap b.occupied[opp_color(color)]}
            \cup (IF ep_sq # None /\ ep_sq \in target_bb_atk
                  THEN {Move(bitpos, ep_sq, None)} ELSE {})
    IN  Captures(PAWN_ATK_MASKS[color][bitpos], b.en_passant_square)

gen_pawn_moves(b, bitpos, piece) ==
    add_pawn_push(b, bitpos, ColorOf(piece)) \cup add_pawn_captures(b, bitpos, ColorOf(piece))

trimmed_ray(ray, direction, all_occupied, own_occupied) ==
    LET blocker_sq(blockers) == IF direction \in POSITIVE_DIRECTIONS
                                THEN lsb(blockers) ELSE msb(blockers)
        Trim(blockers) ==
            IF blockers = {} THEN ray
            ELSE Xor(ray, RAYS[direction][blocker_sq(blockers)]) \cap not64(own_occupied)
    IN  Trim(ray \cap all_occupied)

gen_sliding_moves(b, bitpos, piece) ==
    {Move(bitpos, to_sq, None) :
        to_sq \in UNION {trimmed_ray(RAYS[d][bitpos], d, AllOccupied(b),
                                     b.occupied[ColorOf(piece)]) :
                         d \in DIRECTIONS_MAP[KindOf(piece)]}}

gen_knight_moves(b, bitpos, piece) ==
    {Move(bitpos, to_sq, None) :
        to_sq \in KNIGHT_MASKS[bitpos] \cap not64(b.occupied[ColorOf(piece)])}

can_castle_kingside(b, color, all_occupied, enemy_attacks) ==
    LET blockers_bb == IF color = WHITE THEN {5, 6} ELSE {61, 62}
        right == IF color = WHITE THEN W_KINGSIDE ELSE B_KINGSIDE
    IN  /\ HasBit(b.castling_rights, right)
        /\ all_occupied \cap blockers_bb = {}
        /\ enemy_attacks \cap blockers_bb = {}

can_castle_queenside_safe_path_to_rook(b, color, all_occupied, enemy_attacks) ==
    LET blockers_bb == IF color = WHITE THEN {3, 2, 1} ELSE {59, 58, 57}
        right == IF color = WHITE THEN W_QUEENSIDE ELSE B_QUEENSIDE
    IN  /\ HasBit(b.castling_rights, right)
        /\ all_occupied \cap blockers_bb = {}
        /\ enemy_attacks \cap blockers_bb = {}

can_castle_queenside(b, color, all_occupied, enemy_attacks) ==
    LET blockers_bb == IF color = WHITE THEN {3, 2, 1} ELSE {59, 58, 57}
        king_path_bb == IF color = WHITE THEN {3, 2} ELSE {59, 58}
        right == IF color = WHITE THEN W_QUEENSIDE ELSE B_QUEENSIDE
    IN  /\ HasBit(b.castling_rights, right)
        /\ all_occupied \cap blockers_bb = {}
        /\ enemy_attacks \cap king_path_bb = {}

add_castling_moves(b, bitpos, color) ==
    LET enemy_attacks == b.attacked[opp_color(color)]
        all_occupied == AllOccupied(b)
    IN  IF bitpos \notin enemy_attacks
        THEN (IF can_castle_kingside(b, color, all_occupied, enemy_attacks)
              THEN {Move(bitpos, IF color = WHITE THEN 6 ELSE 62, None)} ELSE {})
             \cup
             (IF can_castle_queenside(b, color, all_occupied, enemy_attacks)
              THEN {Move(bitpos, IF color = WHITE THEN 2 ELSE 58, None)} ELSE {})
        ELSE {}

gen_king_moves(b, bitpos, piece) ==
    add_castling_moves(b, bitpos, ColorOf(piece))
    \cup {Move(bitpos, to_sq, None) :
            to_sq \in KING_MASKS[bitpos] \cap not64(b.occupied[ColorOf(piece)])}

pseudo_get_moves(b, bitpos) ==
    LET Of(piece) ==
            IF piece = NoPiece THEN {}
            ELSE CASE KindOf(piece) = PAWN -> gen_pawn_moves(b, bitpos, piece)
                   [] KindOf(piece) = KNIGHT -> gen_knight_moves(b, bitpos, piece)
                   [] KindOf(piece) = KING -> gen_king_moves(b, bitpos, piece)
                   [] OTHER -> gen_sliding_moves(b, bitpos, piece)
    IN  Of(PieceAt(b.piece_map, bitpos))

pseudo_get_all_moves(b) ==
    [c \in Colors |->
        UNION {pseudo_get_moves(b, sq) :
                 sq \in {s \in Keys(b.piece_map) : ColorOf(b.piece_map[s]) = c}}]

\* ---------------------------------------------------------------- LegalMoveGenerator
\* the piece the king takes is not put back
is_king_safe_after_move_capture_lost(b, from_sq, to_sq, color) ==
    LET made(x) ==
            [x EXCEPT !.piece_map = [@ EXCEPT ![from_sq] = NoPiece, ![to_sq] = <<KING, color>>],
                      !.bitboards[color][KING] = Xor(@, {from_sq, to_sq}),
                      !.occupied[color] = Xor(@, {from_sq, to_sq})]
        taken_back(sim) ==
            [sim EXCEPT !.piece_map = [@ EXCEPT ![to_sq] = NoPiece, ![from_sq] = <<KING, color>>],
                        !.bitboards[color][KING] = Xor(@, {from_sq, to_sq}),
                        !.occupied[color] = Xor(@, {from_sq, to_sq})]
        rebuilt(restored) == [restored EXCEPT !.attacked = get_all_maps(restored)]
        Result(sim) ==
            [is_safe |-> to_sq \notin get_all_maps(sim)[opp_color(color)],
             board |-> rebuilt(taken_back(sim))]
    IN  Result(made(b))
\* The king move is made in place on the board, the attack maps are rebuilt,
\* and the move is taken back.  sim is the board while the move is made,
\* restored is the board after it is taken back.
is_king_safe_after_move(b, from_sq, to_sq, color) ==
    LET made(x) ==
            [x EXCEPT !.piece_map = [@ EXCEPT ![from_sq] = NoPiece, ![to_sq] = <<KING, color>>],
                      !.bitboards[color][KING] = Xor(@, {from_sq, to_sq}),
                      !.occupied[color] = Xor(@, {from_sq, to_sq})]
        taken_back(sim, captured) ==
            [sim EXCEPT !.piece_map = [@ EXCEPT ![to_sq] = captured, ![from_sq] = <<KING, color>>],
                        !.bitboards[color][KING] = Xor(@, {from_sq, to_sq}),
                        !.occupied[color] = Xor(@, {from_sq, to_sq})]
        rebuilt(restored) == [restored EXCEPT !.attacked = get_all_maps(restored)]
        Result(sim, captured) ==
            [is_safe |-> to_sq \notin get_all_maps(sim)[opp_color(color)],
             board |-> rebuilt(taken_back(sim, captured))]
    IN  Result(made(b), PieceAt(b.piece_map, to_sq))

IsLegalPseudo(b, move, color) ==
    LET Legal(bitpos, king_sq) ==
            IF bitpos = king_sq
            THEN is_king_safe_after_move(b, move.from_sq, move.to_sq, color).is_safe
            ELSE /\ move.to_sq \in b.check_mask
                 /\ (bitpos \in b.pinned[color] => is_along_ray(king_sq, bitpos, move.to_sq))
    IN  Legal(move.from_sq, lsb(b.bitboards[color][KING]))

legal_get_moves(b, bitpos) ==
    LET Of(piece) ==
            IF piece = NoPiece \/ ColorOf(piece) # b.active_color THEN {}
            ELSE {move \in b.pseudo_legal_moves[ColorOf(piece)] :
                    move.from_sq = bitpos /\ IsLegalPseudo(b, move, ColorOf(piece))}
    IN  Of(PieceAt(b.piece_map, bitpos))

legal_get_all_moves(b) ==
    UNION {legal_get_moves(b, bitpos) : bitpos \in Keys(b.piece_map)}

\* ---------------------------------------------------------------- zobrist
\* the keys, named by their position in the tables
ZOBRIST_PIECE(piece_type, color, sq) == {piece_type * 128 + color * 64 + sq}
ZOBRIST_CASTLING(rights) == {768 + rights}
ZOBRIST_EN_PASSANT(file) == {784 + file}
ZOBRIST_SIDE_TO_MOVE == {792}

\* XOR of the keys of a set of key sets that are pairwise disjoint
XorAll(keysets) == UNION keysets

\* ---------------------------------------------------------------- Board queries
HistGet(unique_history, h) ==
    IF h \in DOMAIN unique_history THEN unique_history[h] ELSE 0
HistInc(unique_history, h) ==
    IF h \in DOMAIN unique_history
    THEN [unique_history EXCEPT ![h] = @ + 1]
    ELSE unique_history @@ (h :> 1)

is_in_check(b) == b.check_mask # FULL
is_checkmate(b) == is_in_check(b) /\ b.legal_moves = {}
is_stalemate(b) == ~is_in_check(b) /\ b.legal_moves = {}
is_50_move_rule(b) == b.halfmove_clock >= 100
\* the 75-move test off by one
is_75_move_rule_late(b) == b.halfmove_clock > 150
is_75_move_rule(b) == b.halfmove_clock >= 150
is_threefold_repetition(b) == HistGet(b.unique_history, b.zobrist_hash) >= 3
\* the fivefold test off by one
is_fivefold_repetition_late(b) == HistGet(b.unique_history, b.zobrist_hash) > 5
is_fivefold_repetition(b) == HistGet(b.unique_history, b.zobrist_hash) >= 5

same_color_square_bishops(b) ==
    LET Same(bishops) ==
            /\ Cardinality(bishops) = 2
            /\ \A x, y \in bishops :
                  (FileOf(x) + RankOf(x)) % 2 = (FileOf(y) + RankOf(y)) % 2
    IN  Same({sq \in Keys(b.piece_map) : KindOf(b.piece_map[sq]) = BISHOP})

is_insufficient_material(b) ==
    LET Insufficient(pieces) ==
            CASE Cardinality(pieces) = 0 -> TRUE
              [] Cardinality(pieces) = 1 ->
                    \A sq \in pieces : KindOf(b.piece_map[sq]) \in {BISHOP, KNIGHT}
              [] Cardinality(pieces) = 2 ->
                    /\ \A sq \in pieces : KindOf(b.piece_map[sq]) = BISHOP
                    /\ \E x, y \in pieces : ColorOf(b.piece_map[x]) # ColorOf(b.piece_map[y])
                    /\ same_color_square_bishops(b)
              [] OTHER -> FALSE
    IN  Insufficient({sq \in Keys(b.piece_map) : KindOf(b.piece_map[sq]) # KING})

\* the claimable draws counted as draws
is_draw_or_claimable(b) ==
    \/ is_stalemate(b)
    \/ is_50_move_rule(b)
    \/ is_threefold_repetition(b)
    \/ is_insufficient_material(b)
is_draw(b) ==
    \/ is_stalemate(b)
    \/ is_75_move_rule(b)
    \/ is_fivefold_repetition(b)
    \/ is_insufficient_material(b)

is_game_over(b) == b.game_state = CHECKMATE \/ b.game_state = DRAW

\* Board.to_tensor(): the 21 x 8 x 8 tensor as a function of <<plane, row,
\* column>>, 1 for 1.0 and 0 for 0.0
to_tensor(b) ==
    LET piece_plane == <<PAWN, KNIGHT, BISHOP, ROOK, QUEEN, KING>>
        cast_map == <<W_KINGSIDE, W_QUEENSIDE, B_KINGSIDE, B_QUEENSIDE>>
        Flag(on) == IF on THEN 1 ELSE 0
        Pieces(plane, r, c) ==
            Flag((7 - r) * 8 + c
                    \in b.bitboards[IF plane < 6 THEN WHITE ELSE BLACK][piece_plane[(plane % 6) + 1]])
        Castling(right_mask, r, c) ==
            Flag(/\ HasBit(b.castling_rights, right_mask)
                 /\ r = (IF right_mask \in {W_KINGSIDE, W_QUEENSIDE} THEN 0 ELSE 7)
                 /\ c = (IF right_mask \in {W_KINGSIDE, B_KINGSIDE} THEN 7 ELSE 0))
        EnPassant(r, c) ==
            Flag(/\ b.en_passant_square # None
                 /\ r = 7 - (b.en_passant_square \div 8)
                 /\ c = b.en_passant_square % 8)
    IN  [cell \in (0..20) \X (0..7) \X (0..7) |->
            CASE cell[1] <= 11 -> Pieces(cell[1], cell[2], cell[3])
              [] cell[1] = 12 -> Flag(b.active_color = WHITE)
              [] cell[1] \in 13..16 -> Castling(cast_map[cell[1] - 12], cell[2], cell[3])
              [] cell[1] = 17 -> EnPassant(cell[2], cell[3])
              [] cell[1] = 18 -> Flag(is_checkmate(b))
              [] cell[1] = 19 -> Flag(~is_checkmate(b) /\ is_draw(b))
              [] cell[1] = 20 -> Flag(~is_checkmate(b) /\ ~is_draw(b))]
is_legal(b, move) == move \in b.legal_moves

\* ---------------------------------------------------------------- caches
ep_capture_possible(b, ep_sq, color) ==
    /\ ep_sq # None
    /\ \E df \in {-1, 1} :
          /\ FileOf(ep_sq) + df >= 0
          /\ FileOf(ep_sq) + df < 8
          /\ PieceAt(b.piece_map,
                     (RankOf(ep_sq) + (IF color = WHITE THEN -1 ELSE 1)) * 8
                        + FileOf(ep_sq) + df) = <<PAWN, color>>

build_pinned(b) ==
    LET Own(color, blockers) ==
            IF Cardinality(blockers) = 1
               /\ PieceAt(b.piece_map, lsb(blockers)) # NoPiece
               /\ ColorOf(b.piece_map[lsb(blockers)]) = color
            THEN blockers ELSE {}
        Blockers(color, king_bb, sq, direction) ==
            IF king_bb \cap RAYS[direction][sq] = {} THEN {}
            ELSE Own(color, ray_between(sq, lsb(king_bb)) \cap AllOccupied(b))
        PinnedOf(color) ==
            UNION {UNION {Blockers(color, b.bitboards[color][KING], sq, d) :
                            d \in DIRECTIONS_MAP[KindOf(b.piece_map[sq])]} :
                     sq \in {a \in Keys(b.piece_map) :
                               /\ ColorOf(b.piece_map[a]) = opp_color(color)
                               /\ KindOf(b.piece_map[a]) \in Sliders}}
    IN  [color \in Colors |-> PinnedOf(color)]

\* the first capturing pawn found (file to the left first) decides
maybe_add_en_passant_check_mask(b, color, checker_sq, check_mask) ==
    LET Reaches(sq, king_bb, direction, occ) ==
            /\ direction # ""
            /\ direction \in DIRECTIONS_MAP[KindOf(b.piece_map[sq])]
            /\ (RAYS[direction][sq] \cap not64(RAYS[direction][lsb(king_bb)])
                  \cap not64(king_bb)) \cap occ = {}
        Discovered(king_bb, occ) ==
            \E sq \in Keys(b.piece_map) :
               /\ ColorOf(b.piece_map[sq]) = opp_color(color)
               /\ KindOf(b.piece_map[sq]) \in Sliders
               /\ Reaches(sq, king_bb, RAYS_DIRECTIONS_MAP[sq][lsb(king_bb)], occ)
        Capturer(ep, rank, delta_file) ==
            /\ OnBoard(FileOf(ep) + delta_file, rank)
            /\ PieceAt(b.piece_map, rank * 8 + FileOf(ep) + delta_file) = <<PAWN, color>>
        Added(ep, ep_pawn_sq, from_sq) ==
            IF Discovered(b.bitboards[color][KING],
                          Xor(Xor(AllOccupied(b), mask(ep_pawn_sq)), mask(from_sq)) \cup mask(ep))
            THEN check_mask ELSE check_mask \cup mask(ep)
        First(ep, ep_pawn_sq, rank, capturers) ==
            IF capturers = {} THEN check_mask
            ELSE Added(ep, ep_pawn_sq, rank * 8 + FileOf(ep) + Min(capturers))
        Mask(ep, ep_pawn_sq, rank) ==
            IF checker_sq # ep_pawn_sq
               \/ PieceAt(b.piece_map, ep_pawn_sq) # <<PAWN, opp_color(color)>> THEN check_mask
            ELSE First(ep, ep_pawn_sq, rank,
                       {delta_file \in {-1, 1} : Capturer(ep, rank, delta_file)})
        Of(ep) == Mask(ep, ep - (IF color = WHITE THEN 8 ELSE -8),
                       RankOf(ep) - (IF color = WHITE THEN 1 ELSE -1))
    IN  IF b.en_passant_square = None THEN check_mask ELSE Of(b.en_passant_square)

build_check_mask(b, color, pkg) ==
    LET Single(king_bb, checker_sq) ==
            mask(checker_sq) \cup
            (IF KindOf(b.piece_map[checker_sq]) \in Sliders
             THEN ray_between(lsb(king_bb), checker_sq) ELSE {})
        Extended(checker_sq, check_mask) ==
            IF pkg = "bitboarder"
            THEN maybe_add_en_passant_check_mask(b, color, checker_sq, check_mask)
            ELSE check_mask
        Mask(king_bb, checkers) ==
            IF Cardinality(checkers) = 0 THEN FULL
            ELSE IF Cardinality(checkers) > 1 THEN king_bb
            ELSE Extended(lsb(checkers), Single(king_bb, lsb(checkers)))
        Of(king_bb) ==
            Mask(king_bb, {sq \in Keys(b.piece_map) :
                             /\ ColorOf(b.piece_map[sq]) = opp_color(color)
                             /\ king_bb \cap get_map(b, sq) # {}})
    IN  Of(b.bitboards[color][KING])

update_cache(b, pkg) ==
    LET pinned(x) == [x EXCEPT !.pinned = build_pinned(x)]
        attacked(x) == [x EXCEPT !.attacked = get_all_maps(x)]
        check_mask(x) == [x EXCEPT !.check_mask = build_check_mask(x, x.active_color, pkg)]
        pseudo_legal_moves(x) == [x EXCEPT !.pseudo_legal_moves = pseudo_get_all_moves(x)]
        legal_moves(x) == [x EXCEPT !.legal_moves = legal_get_all_moves(x)]
    IN  legal_moves(pseudo_legal_moves(check_mask(attacked(pinned(b)))))

\* only a checkmate ends the game
update_game_state_mates_only(b) ==
    [b EXCEPT !.game_state = IF is_checkmate(b) THEN CHECKMATE ELSE ACTIVE]

update_game_state(b) ==
    [b EXCEPT !.game_state =
        IF is_checkmate(b) THEN CHECKMATE ELSE IF is_draw(b) THEN DRAW ELSE ACTIVE]

\* ---------------------------------------------------------------- building a Board
build_occupied(bitboards) ==
    [color \in Colors |-> UNION {bitboards[color][piece_type] : piece_type \in Kinds}]

\* later entries overwrite earlier ones: BLACK before WHITE, kinds 0..5 in order
build_piece_map(bitboards) ==
    [sq \in Squares |->
        LET last(holders) == CHOOSE h \in holders :
                                \A g \in holders : g[1] * 6 + g[2] <= h[1] * 6 + h[2]
            Entry(holders) == IF holders = {} THEN NoPiece
                              ELSE <<last(holders)[2], last(holders)[1]>>
        IN  Entry({<<color, piece_type>> \in Colors \X Kinds :
                     sq \in bitboards[color][piece_type]})]

PieceKeys(piece_map) ==
    Keys(piece_map)

\* XOR over the map's entries; distinct entries have distinct keys
zobrist_of_pieces(piece_map) ==
    UNION {ZOBRIST_PIECE(KindOf(piece_map[sq]), ColorOf(piece_map[sq]), sq) :
             sq \in PieceKeys(piece_map)}

build_zobrist(b, pkg) ==
    LET side(h) == IF b.active_color = BLACK THEN Xor(h, ZOBRIST_SIDE_TO_MOVE) ELSE h
        castling(h) == Xor(h, ZOBRIST_CASTLING(b.castling_rights))
        en_passant(h, ep) ==
            IF ep # None
               /\ (pkg = "bitboarder" => ep_capture_possible(b, ep, opp_color(b.active_color)))
            THEN Xor(h, ZOBRIST_EN_PASSANT(FileOf(ep)))
            ELSE h
    IN  en_passant(castling(side(zobrist_of_pieces(b.piece_map))), b.en_passant_square)

post_init(b, pkg) ==
    LET piece_map(x) == [x EXCEPT !.piece_map = build_piece_map(x.bitboards)]
        zobrist_hash(x) == [x EXCEPT !.zobrist_hash = build_zobrist(x, pkg)]
        unique_history(x) == [x EXCEPT !.unique_history = (x.zobrist_hash :> 1)]
    IN  update_game_state(update_cache(unique_history(zobrist_hash(piece_map(b))), pkg))

StartBitboards ==
    [color \in Colors |-> [piece_type \in Kinds |->
        IF color = BLACK
        THEN CASE piece_type = PAWN -> 48..55
               [] piece_type = ROOK -> {56, 63}
               [] piece_type = BISHOP -> {58, 61}
               [] piece_type = KNIGHT -> {57, 62}
               [] piece_type = QUEEN -> {59}
               [] piece_type = KING -> {60}
        ELSE CASE piece_type = PAWN -> 8..15
               [] piece_type = ROOK -> {0, 7}
               [] piece_type = BISHOP -> {2, 5}
               [] piece_type = KNIGHT -> {1, 6}
               [] piece_type = QUEEN -> {3}
               [] piece_type = KING -> {4}]]

\* the fields as Board.__init__ sets them before any FEN is applied
FreshBoard ==
    [active_color |-> WHITE,
     game_state |-> ACTIVE,
     castling_rights |-> 15,
     en_passant_square |-> None,
     halfmove_clock |-> 0,
     fullmove_count |-> 1,
     piece_map |-> [sq \in Squares |-> NoPiece],
     zobrist_hash |-> {},
     unique_history |-> <<>>,
     bitboards |-> StartBitboards,
     old_en_passant_capturable |-> FALSE,
     pinned |-> [c \in Colors |-> {}],
     check_mask |-> {},
     attacked |-> [c \in Colors |-> {}],
     pseudo_legal_moves |-> [c \in Colors |-> {}],
     legal_moves |-> {},
     occupied |-> [c \in Colors |-> IF c = BLACK THEN 48..63 ELSE 0..15]]

\* ---------------------------------------------------------------- make move
\* the captured piece looked for on the destination only
get_captured_piece_on_destination(b, move, moved_piece) ==
    <<move.to_sq, PieceAt(b.piece_map, move.to_sq)>>
\* <<capture_sq, captured_piece>>
get_captured_piece(b, move, moved_piece) ==
    IF KindOf(moved_piece) = PAWN /\ move.to_sq = b.en_passant_square
    THEN LET target_sq == move.to_sq + (IF ColorOf(moved_piece) = WHITE THEN -8 ELSE 8)
         IN  <<target_sq, PieceAt(b.piece_map, target_sq)>>
    ELSE <<move.to_sq, PieceAt(b.piece_map, move.to_sq)>>

\* the rights revoked for rook moves only
revoke_castling_rights_of_rooks(rights, from_sq, moved_piece) ==
    LET piece_type == KindOf(moved_piece)
        color == ColorOf(moved_piece)
    IN  IF color = WHITE
        THEN CASE piece_type = ROOK /\ from_sq = 0 -> ClearBit(rights, W_QUEENSIDE)
               [] piece_type = ROOK /\ from_sq = 7 -> ClearBit(rights, W_KINGSIDE)
               [] OTHER -> rights
        ELSE CASE piece_type = ROOK /\ from_sq = 56 -> ClearBit(rights, B_QUEENSIDE)
               [] piece_type = ROOK /\ from_sq = 63 -> ClearBit(rights, B_KINGSIDE)
               [] OTHER -> rights
revoke_castling_rights(rights, from_sq, moved_piece) ==
    LET piece_type == KindOf(moved_piece)
        color == ColorOf(moved_piece)
    IN  IF color = WHITE
        THEN CASE piece_type = KING -> ClearBit(ClearBit(rights, W_KINGSIDE), W_QUEENSIDE)
               [] piece_type = ROOK /\ from_sq = 0 -> ClearBit(rights, W_QUEENSIDE)
               [] piece_type = ROOK /\ from_sq = 7 -> ClearBit(rights, W_KINGSIDE)
               [] OTHER -> rights
        ELSE CASE piece_type = KING -> ClearBit(ClearBit(rights, B_KINGSIDE), B_QUEENSIDE)
               [] piece_type = ROOK /\ from_sq = 56 -> ClearBit(rights, B_QUEENSIDE)
               [] piece_type = ROOK /\ from_sq = 63 -> ClearBit(rights, B_KINGSIDE)
               [] OTHER -> rights

\* a captured rook takes no castling right with it
handle_capture_keeping_rights(b, move, moved_piece) ==
    LET Take(capture_sq, captured_piece) ==
            IF captured_piece = NoPiece THEN b
            ELSE [b EXCEPT
                    !.bitboards[ColorOf(captured_piece)][KindOf(captured_piece)] =
                        @ \cap not64(mask(capture_sq)),
                    !.piece_map[capture_sq] = NoPiece,
                    !.occupied[ColorOf(captured_piece)] = @ \cap not64(mask(capture_sq))]
        Of(cap) == Take(cap[1], cap[2])
    IN  Of(get_captured_piece(b, move, moved_piece))
handle_capture(b, move, moved_piece) ==
    LET Take(capture_sq, captured_piece) ==
            IF captured_piece = NoPiece THEN b
            ELSE [b EXCEPT
                    !.bitboards[ColorOf(captured_piece)][KindOf(captured_piece)] =
                        @ \cap not64(mask(capture_sq)),
                    !.piece_map[capture_sq] = NoPiece,
                    !.occupied[ColorOf(captured_piece)] = @ \cap not64(mask(capture_sq)),
                    !.castling_rights =
                        IF KindOf(captured_piece) = ROOK
                        THEN revoke_castling_rights(@, capture_sq, captured_piece) ELSE @]
        Of(cap) == Take(cap[1], cap[2])
    IN  Of(get_captured_piece(b, move, moved_piece))

handle_pawn_double_push_kept(b, move, moved_piece) ==
    LET direction == IF ColorOf(moved_piece) = WHITE THEN 16 ELSE -16
    IN  IF KindOf(moved_piece) # PAWN \/ move.to_sq # move.from_sq + direction
        THEN b
        ELSE [b EXCEPT !.en_passant_square =
                          move.from_sq + (IF ColorOf(moved_piece) = WHITE THEN 8 ELSE -8)]

handle_pawn_double_push(b, move, moved_piece) ==
    LET direction == IF ColorOf(moved_piece) = WHITE THEN 16 ELSE -16
    IN  IF KindOf(moved_piece) # PAWN \/ move.to_sq # move.from_sq + direction
        THEN [b EXCEPT !.en_passant_square = None]
        ELSE [b EXCEPT !.en_passant_square =
                          move.from_sq + (IF ColorOf(moved_piece) = WHITE THEN 8 ELSE -8)]

\* <<old_pos, new_pos>> of the corner piece a king move carries along, or <<>>
CastlingCorner(b, move, moved_piece) ==
    LET color == ColorOf(moved_piece)
    IN  IF KindOf(moved_piece) # KING THEN <<>>
        ELSE IF color = WHITE
        THEN (IF move.to_sq = 2 /\ HasBit(b.castling_rights, W_QUEENSIDE) THEN <<0, 3>>
              ELSE IF move.to_sq = 6 /\ HasBit(b.castling_rights, W_KINGSIDE) THEN <<7, 5>>
              ELSE <<>>)
        ELSE (IF move.to_sq = 58 /\ HasBit(b.castling_rights, B_QUEENSIDE) THEN <<56, 59>>
              ELSE IF move.to_sq = 62 /\ HasBit(b.castling_rights, B_KINGSIDE) THEN <<63, 61>>
              ELSE <<>>)

\* [board, rook_move]; rook_move is <<>> for None
handle_castling(b, move, moved_piece) ==
    LET Carried(old_pos, new_pos, corner_rook) ==
            IF corner_rook = NoPiece THEN b
            ELSE [b EXCEPT
                    !.bitboards[ColorOf(corner_rook)][KindOf(corner_rook)] =
                        (@ \cap not64(mask(old_pos))) \cup mask(new_pos),
                    !.piece_map = [[@ EXCEPT ![old_pos] = NoPiece]
                                      EXCEPT ![new_pos] = corner_rook],
                    !.occupied[ColorOf(corner_rook)] =
                        (@ \cap not64(mask(old_pos))) \cup mask(new_pos)]
        Revoked(x) ==
            IF KindOf(moved_piece) \in {KING, ROOK}
            THEN [x EXCEPT !.castling_rights =
                              revoke_castling_rights(@, move.from_sq, moved_piece)]
            ELSE x
        Result(corner, corner_rook) ==
            [board |-> Revoked(Carried(corner[1], corner[2], corner_rook)),
             rook_move |-> IF corner_rook = NoPiece THEN <<>> ELSE corner]
        Of(corner) ==
            Result(corner, IF corner = <<>> THEN NoPiece ELSE PieceAt(b.piece_map, corner[1]))
    IN  Of(CastlingCorner(b, move, moved_piece))

handle_halfmove_fullmove(b, moved_piece, captured_piece) ==
    [b EXCEPT
        !.halfmove_clock = IF KindOf(moved_piece) = PAWN \/ captured_piece # NoPiece
                           THEN 0 ELSE @ + 1,
        !.fullmove_count = IF ColorOf(moved_piece) = BLACK THEN @ + 1 ELSE @]

\* the mover kept as it is
NewType_unpromoted(move, piece_type) == piece_type
\* move.promotion or piece_type
NewType(move, piece_type) ==
    IF move.promotion # None /\ move.promotion # 0 THEN move.promotion ELSE piece_type

\* the pawns looked for next to the new en-passant square are those of
\* opp_color(self.active_color) at the time of the call
increment_zobrist(b, move, moved_piece, captured_piece, capture_sq, old_castling, old_en_passant, rook_move, pkg) ==
    LET side(h) == Xor(h, ZOBRIST_SIDE_TO_MOVE)
        old_ep(h) ==
            IF old_en_passant # None /\ (pkg = "bitboarder" => b.old_en_passant_capturable)
            THEN Xor(h, ZOBRIST_EN_PASSANT(FileOf(old_en_passant))) ELSE h
        mover(h, piece_type, color) ==
            Xor(Xor(h, ZOBRIST_PIECE(piece_type, color, move.from_sq)),
                ZOBRIST_PIECE(NewType(move, piece_type), color, move.to_sq))
        captured(h) ==
            IF captured_piece # NoPiece
            THEN Xor(h, ZOBRIST_PIECE(KindOf(captured_piece), ColorOf(captured_piece),
                                      capture_sq))
            ELSE h
        castling(h) ==
            IF b.castling_rights # old_castling
            THEN Xor(Xor(h, ZOBRIST_CASTLING(old_castling)),
                     ZOBRIST_CASTLING(b.castling_rights))
            ELSE h
        new_ep(h, capturable) ==
            IF capturable THEN Xor(h, ZOBRIST_EN_PASSANT(FileOf(b.en_passant_square))) ELSE h
        rook(h, color) ==
            IF rook_move # <<>>
            THEN Xor(Xor(h, ZOBRIST_PIECE(ROOK, color, rook_move[1])),
                     ZOBRIST_PIECE(ROOK, color, rook_move[2]))
            ELSE h
        Hashed(capturable) ==
            [b EXCEPT
                !.zobrist_hash =
                    rook(new_ep(castling(captured(mover(old_ep(side(b.zobrist_hash)),
                                                        KindOf(moved_piece),
                                                        ColorOf(moved_piece)))),
                                capturable),
                         ColorOf(moved_piece)),
                !.old_en_passant_capturable = IF pkg = "bitboarder" THEN capturable ELSE @]
    IN  Hashed(/\ b.en_passant_square # None
               /\ (pkg = "bitboarder" =>
                     ep_capture_possible(b, b.en_passant_square, opp_color(b.active_color))))

count_position(b) ==
    [b EXCEPT !.unique_history = HistInc(@, b.zobrist_hash)]

switch_player(b) ==
    [b EXCEPT !.active_color = 1 - @]

\* bitboarder hashes before it switches the player, chess after
post_move_updates(b, move, moved_piece, captured_piece, capture_sq, old_castling, old_en_passant, rook_move, pkg) ==
    LET switched_first(x) == IF pkg = "bitboarder" THEN x ELSE switch_player(x)
        hashed(x) == increment_zobrist(x, move, moved_piece, captured_piece, capture_sq,
                                       old_castling, old_en_passant, rook_move, pkg)
        switched_last(x) == IF pkg = "bitboarder" THEN switch_player(x) ELSE x
    IN  update_cache(
            update_game_state(switched_last(count_position(hashed(switched_first(b))))),
            pkg)

\* the mover leaves from_sq and arrives, as move.promotion or itself, on to_sq
relocate(b, move, piece_type, color, new_type) ==
    [b EXCEPT
        !.bitboards = [[@ EXCEPT ![color][piece_type] = @ \cap not64(mask(move.from_sq))]
                          EXCEPT ![color][new_type] = @ \cup mask(move.to_sq)],
        !.piece_map = [[@ EXCEPT ![move.from_sq] = NoPiece]
                          EXCEPT ![move.to_sq] = <<new_type, color>>],
        !.occupied[color] = (@ \cap not64(mask(move.from_sq))) \cup mask(move.to_sq)]

make_move(b, move, pkg) ==
    LET Updated(moved_piece, captured_piece, capture_sq, hc) ==
            post_move_updates(
                relocate(handle_halfmove_fullmove(hc.board, moved_piece, captured_piece),
                         move, KindOf(moved_piece), ColorOf(moved_piece),
                         NewType(move, KindOf(moved_piece))),
                move, moved_piece, captured_piece, capture_sq,
                b.castling_rights, b.en_passant_square, hc.rook_move, pkg)
        Captured(moved_piece, cap) ==
            Updated(moved_piece, cap[2], cap[1],
                    handle_castling(
                        handle_pawn_double_push(handle_capture(b, move, moved_piece),
                                                move, moved_piece),
                        move, moved_piece))
        Moved(moved_piece) == Captured(moved_piece, get_captured_piece(b, move, moved_piece))
    IN  Moved(PieceAt(b.piece_map, move.from_sq))

\* ---------------------------------------------------------------- FEN text
\* A string is a sequence of one-character strings.
PIECE_SYMBOLS == <<"p", "r", "b", "n", "q", "k">>
UPPER_SYMBOLS == <<"P", "R", "B", "N", "Q", "K">>
COLOR_SYMBOLS == [c \in Colors |-> IF c = BLACK THEN "b" ELSE "w"]
DigitChars == <<"0", "1", "2", "3", "4", "5", "6", "7", "8", "9">>
FileChars == <<"a", "b", "c", "d", "e", "f", "g", "h">>

IndexIn(seq, ch) == CHOOSE i \in 1..Len(seq) : seq[i] = ch
IsIn(seq, ch) == \E i \in 1..Len(seq) : seq[i] = ch
IsDigit(ch) == IsIn(DigitChars, ch)
DigitVal(ch) == IndexIn(DigitChars, ch) - 1
IsLowerPiece(ch) == IsIn(PIECE_SYMBOLS, ch)
IsUpperPiece(ch) == IsIn(UPPER_SYMBOLS, ch)
\* char.lower() on a piece letter
Lower(ch) == IF IsUpperPiece(ch) THEN PIECE_SYMBOLS[IndexIn(UPPER_SYMBOLS, ch)] ELSE ch
get_piece_from_symbol(symbol) == IndexIn(PIECE_SYMBOLS, symbol) - 1

\* str(n) and int(s) for non-negative n
RECURSIVE IntToStr(_)
IntToStr(n) ==
    IF n < 10 THEN <<DigitChars[n + 1]>>
    ELSE IntToStr(n \div 10) \o <<DigitChars[(n % 10) + 1]>>

RECURSIVE StrToInt(_)
StrToInt(str) ==
    IF Len(str) = 0 THEN 0
    ELSE StrToInt(SubSeq(str, 1, Len(str) - 1)) * 10 + DigitVal(str[Len(str)])

\* the pieces of str between occurrences of sep, empty pieces included
RECURSIVE SplitOn(_, _)
SplitOn(str, sep) ==
    IF ~IsIn(str, sep) THEN <<str>>
    ELSE LET i == CHOOSE k \in 1..Len(str) :
                     str[k] = sep /\ \A j \in 1..(k - 1) : str[j] # sep
         IN  <<SubSeq(str, 1, i - 1)>> \o SplitOn(SubSeq(str, i + 1, Len(str)), sep)

\* str.split(): the non-empty pieces between runs of blanks
Split(str) == SelectSeq(SplitOn(str, " "), LAMBDA piece : piece # <<>>)

RECURSIVE Strip(_)
Strip(str) ==
    IF str # <<>> /\ Head(str) = " " THEN Strip(Tail(str))
    ELSE IF str # <<>> /\ str[Len(str)] = " " THEN Strip(SubSeq(str, 1, Len(str) - 1))
    ELSE str

SQUARE_MAP(uci_sq) == DigitVal(uci_sq[2]) * 8 - 8 + IndexIn(FileChars, uci_sq[1]) - 1
REVERSE_SQUARE_MAP(bitpos) == <<FileChars[FileOf(bitpos) + 1], DigitChars[RankOf(bitpos) + 2]>>
algebraic_to_bitpos(uci_sq) == SQUARE_MAP(uci_sq)
bitpos_to_algebraic(bitpos) == REVERSE_SQUARE_MAP(bitpos)

\* FEN_REGEX, field by field (the fields are separated by exactly one blank)
RankSum(rank) ==
    LET RECURSIVE Sum(_)
        Sum(i) == IF i = 0 THEN 0
                  ELSE Sum(i - 1) + (IF IsDigit(rank[i]) THEN DigitVal(rank[i]) ELSE 1)
    IN  Sum(Len(rank))

MatchBoard(field) ==
    LET Char(ch) == \/ IsLowerPiece(ch) \/ IsUpperPiece(ch)
                    \/ (IsDigit(ch) /\ DigitVal(ch) \in 1..8)
        Rank(rank) == Len(rank) >= 1 /\ \A i \in 1..Len(rank) : Char(rank[i])
        Ranks(ranks) == Len(ranks) = 8 /\ \A r \in 1..8 : Rank(ranks[r])
    IN  Ranks(SplitOn(field, "/"))

\* K?Q?k?q?|-
MatchCastling(field) ==
    \/ field = <<"-">>
    \/ \E sub \in SUBSET {1, 2, 3, 4} :
          field = SelectSeq(<<"K", "Q", "k", "q">>,
                            LAMBDA ch : IndexIn(<<"K", "Q", "k", "q">>, ch) \in sub)

MatchEp(field) ==
    \/ field = <<"-">>
    \/ /\ Len(field) = 2
       /\ IsIn(FileChars, field[1])
       /\ field[2] \in {"3", "6"}

MatchDigits(field) == Len(field) >= 1 /\ \A i \in 1..Len(field) : IsDigit(field[i])

FEN_REGEX(fen) ==
    LET Fields(fields) ==
            /\ Len(fields) = 6
            /\ MatchBoard(fields[1])
            /\ fields[2] \in {<<"w">>, <<"b">>}
            /\ MatchCastling(fields[3])
            /\ MatchEp(fields[4])
            /\ MatchDigits(fields[5])
            /\ MatchDigits(fields[6]) /\ fields[6][1] # "0"
    IN  Fields(SplitOn(fen, " "))

is_valid_fen(fen_in) ==
    LET Ranks(ranks) == \A r \in 1..Len(ranks) : RankSum(ranks[r]) = 8
        Valid(fen) == FEN_REGEX(fen) /\ Ranks(SplitOn(SplitOn(fen, " ")[1], "/"))
    IN  Valid(Strip(fen_in))

get_color_from_symbol(symbol) == IF symbol = "b" THEN BLACK ELSE WHITE

CHAR_TO_CASTLING_BIT(ch) ==
    CASE ch = "K" -> W_KINGSIDE
      [] ch = "Q" -> W_QUEENSIDE
      [] ch = "k" -> B_KINGSIDE
      [] ch = "q" -> B_QUEENSIDE

str_to_castling_rights(fen_castling) ==
    LET RECURSIVE Acc(_)
        Acc(i) == IF i = 0 THEN 0
                  ELSE SetBit(Acc(i - 1), CHAR_TO_CASTLING_BIT(fen_castling[i]))
    IN  IF fen_castling = <<"-">> THEN 0 ELSE Acc(Len(fen_castling))

EmptyBitboards == [color \in Colors |-> [piece_type \in Kinds |-> {}]]

RECURSIVE ParseRow(_, _, _, _, _)
ParseRow(row, i, rank_offset, file_offset, bitboards) ==
    IF i > Len(row) THEN bitboards
    ELSE IF IsDigit(row[i])
    THEN ParseRow(row, i + 1, rank_offset, file_offset + DigitVal(row[i]), bitboards)
    ELSE LET Place(piece_type, color, square) ==
                 ParseRow(row, i + 1, rank_offset, file_offset + 1,
                          [bitboards EXCEPT ![color][piece_type] = @ \cup mask(square)])
         IN  Place(get_piece_from_symbol(Lower(row[i])),
                   IF IsLowerPiece(row[i]) THEN BLACK ELSE WHITE,
                   rank_offset + file_offset)

get_bitboard_from_fen(fen_board) ==
    LET RECURSIVE Rows(_, _, _, _)
        Rows(rows, r, rank_offset, bitboards) ==
            IF r > Len(rows) THEN bitboards
            ELSE Rows(rows, r + 1, rank_offset - 8,
                      ParseRow(rows[r], 1, rank_offset, 0, bitboards))
    IN  Rows(SplitOn(fen_board, "/"), 1, 56, EmptyBitboards)

\* set_from_fen on a valid FEN: the fields it assigns, then the rebuild
set_from_fen(b, fen_in, pkg) ==
    LET Assigned(fields, bitboards) ==
            [b EXCEPT
                !.active_color = get_color_from_symbol(fields[2][1]),
                !.castling_rights = str_to_castling_rights(fields[3]),
                !.en_passant_square =
                    IF fields[4] = <<"-">> THEN None ELSE algebraic_to_bitpos(fields[4]),
                !.halfmove_clock = StrToInt(fields[5]),
                !.fullmove_count = StrToInt(fields[6]),
                !.bitboards = bitboards,
                !.old_en_passant_capturable = FALSE,
                !.occupied = build_occupied(bitboards)]
        Of(fields) == Assigned(fields, get_bitboard_from_fen(fields[1]))
    IN  post_init(Of(Split(Strip(fen_in))), pkg)

\* the rights written black first
castling_to_str_black_first(rights) ==
    LET str == (IF HasBit(rights, B_KINGSIDE) THEN <<"k">> ELSE <<>>)
               \o (IF HasBit(rights, B_QUEENSIDE) THEN <<"q">> ELSE <<>>)
               \o (IF HasBit(rights, W_KINGSIDE) THEN <<"K">> ELSE <<>>)
               \o (IF HasBit(rights, W_QUEENSIDE) THEN <<"Q">> ELSE <<>>)
    IN  IF str = <<>> THEN <<"-">> ELSE str
castling_to_str(rights) ==
    LET str == (IF HasBit(rights, W_KINGSIDE) THEN <<"K">> ELSE <<>>)
               \o (IF HasBit(rights, W_QUEENSIDE) THEN <<"Q">> ELSE <<>>)
               \o (IF HasBit(rights, B_KINGSIDE) THEN <<"k">> ELSE <<>>)
               \o (IF HasBit(rights, B_QUEENSIDE) THEN <<"q">> ELSE <<>>)
    IN  IF str = <<>> THEN <<"-">> ELSE str

\* the symbol on a square, "" when no bitboard has the bit: BLACK is looked
\* up before WHITE, the kinds in order
SymbolAt(bitboards, square) ==
    IF \E piece_type \in Kinds : square \in bitboards[BLACK][piece_type]
    THEN PIECE_SYMBOLS[1 + Min({k \in Kinds : square \in bitboards[BLACK][k]})]
    ELSE IF \E piece_type \in Kinds : square \in bitboards[WHITE][piece_type]
    THEN UPPER_SYMBOLS[1 + Min({k \in Kinds : square \in bitboards[WHITE][k]})]
    ELSE ""

RECURSIVE FenRow(_, _, _, _)
FenRow(bitboards, rank, file, empty_count) ==
    IF file = 8
    THEN (IF empty_count > 0 THEN IntToStr(empty_count) ELSE <<>>)
    ELSE LET Put(symbol) ==
                 IF symbol = "" THEN FenRow(bitboards, rank, file + 1, empty_count + 1)
                 ELSE (IF empty_count > 0 THEN IntToStr(empty_count) ELSE <<>>)
                      \o <<symbol>> \o FenRow(bitboards, rank, file + 1, 0)
         IN  Put(SymbolAt(bitboards, rank * 8 + file))

to_fen(b) ==
    LET RECURSIVE Placement(_)
        Placement(rank) ==
            IF rank = 0 THEN FenRow(b.bitboards, 0, 0, 0)
            ELSE FenRow(b.bitboards, rank, 0, 0) \o <<"/">> \o Placement(rank - 1)
        en_passant == IF b.en_passant_square # None
                      THEN REVERSE_SQUARE_MAP(b.en_passant_square) ELSE <<"-">>
    IN  Placement(7) \o <<" ", COLOR_SYMBOLS[b.active_color], " ">>
        \o castling_to_str(b.castling_rights) \o <<" ">> \o en_passant \o <<" ">>
        \o IntToStr(b.halfmove_clock) \o <<" ">> \o IntToStr(b.fullmove_count)

\* ---------------------------------------------------------------- inputs
STARTING_FEN ==
    <<"r", "n", "b", "q", "k", "b", "n", "r", "/", "p", "p", "p", "p", "p", "p", "p", "p",
    "/", "8", "/", "8", "/", "8", "/", "8", "/", "P", "P", "P", "P", "P", "P", "P", "P",
    "/", "R", "N", "B", "Q", "K", "B", "N", "R", " ", "w", " ", "K", "Q", "k", "q", " ",
    "-", " ", "0", " ", "1">>

\* black can play c7c5 next to the pawn b5, with the rook h5 behind
FEN_EP_PIN ==
    <<"8", "/", "2", "p", "5", "/", "8", "/", "K", "P", "5", "r", "/", "8", "/", "8", "/",
    "8", "/", "7", "k", " ", "b", " ", "-", " ", "-", " ", "0", " ", "1">>

\* black can check with d7d5, which c5 can take en passant
FEN_EP_CHECK ==
    <<"8", "/", "3", "p", "4", "/", "8", "/", "1", "N", "P", "5", "/", "4", "K", "3", "/",
    "8", "/", "8", "/", "7", "k", " ", "b", " ", "-", " ", "-", " ", "0", " ", "1">>

\* the king can step from h1 to g1, next to its rook on f1
FEN_ROOK_F1 ==
    <<"4", "k", "3", "/", "8", "/", "8", "/", "8", "/", "8", "/", "8", "/", "8", "/", "5",
    "R", "1", "K", " ", "w", " ", "-", " ", "-", " ", "0", " ", "1">>

\* the right K is recorded although the king stands on f1
FEN_KING_F1 ==
    <<"4", "k", "3", "/", "8", "/", "8", "/", "8", "/", "8", "/", "8", "/", "8", "/", "5",
    "K", "1", "R", " ", "w", " ", "K", " ", "-", " ", "0", " ", "1">>

\* both sides can castle both ways and the rooks see the first and the
\* eighth rank
FEN_OPEN_CASTLE ==
    <<"r", "3", "k", "2", "r", "/", "8", "/", "8", "/", "8", "/", "8", "/", "8", "/",
    "8", "/", "R", "3", "K", "2", "R", " ", "b", " ", "K", "Q", "k", "q", " ", "-", " ",
    "0", " ", "1">>

\* both sides can castle both ways
FEN_CASTLE ==
    <<"r", "3", "k", "2", "r", "/", "p", "p", "p", "p", "p", "p", "p", "p", "/", "8", "/",
    "8", "/", "8", "/", "8", "/", "P", "P", "P", "P", "P", "P", "P", "P", "/", "R", "3",
    "K", "2", "R", " ", "w", " ", "K", "Q", "k", "q", " ", "-", " ", "0", " ", "1">>

\* a7 can promote on a8 or by taking b8
FEN_PROMOTE ==
    <<"1", "n", "5", "k", "/", "P", "7", "/", "8", "/", "8", "/", "8", "/", "8", "/", "8",
    "/", "K", "7", " ", "w", " ", "-", " ", "-", " ", "0", " ", "1">>

\* Qe7-f7 stalemates
FEN_STALEMATE ==
    <<"7", "k", "/", "4", "Q", "3", "/", "8", "/", "8", "/", "8", "/", "8", "/", "8", "/",
    "K", "7", " ", "w", " ", "-", " ", "-", " ", "0", " ", "1">>

\* one quiet move from the 75-move limit
FEN_75 ==
    <<"4", "k", "3", "/", "8", "/", "8", "/", "8", "/", "8", "/", "8", "/", "8", "/", "R",
    "3", "K", "3", " ", "w", " ", "Q", " ", "-", " ", "1", "4", "9", " ", "1", "0", "0">>

\* checkmate: FEN_MATE_IN_ONE after f8g6
FEN_MATED ==
    <<"7", "k", "/", "7", "P", "/", "6", "N", "K", "/", "8", "/", "8", "/", "8", "/",
    "8", "/", "8", " ", "b", " ", "-", " ", "-", " ", "1", " ", "1">>

\* stalemate: FEN_MATE_IN_ONE after f8e6
FEN_NO_MOVE ==
    <<"7", "k", "/", "7", "P", "/", "4", "N", "2", "K", "/", "8", "/", "8", "/", "8",
    "/", "8", "/", "8", " ", "b", " ", "-", " ", "-", " ", "1", " ", "1">>

\* king against king: FEN_LAST_PAWN after a1b2
FEN_BARE_KINGS ==
    <<"7", "k", "/", "8", "/", "8", "/", "8", "/", "8", "/", "8", "/", "1", "K", "6",
    "/", "8", " ", "b", " ", "-", " ", "-", " ", "0", " ", "1">>

\* the 75-move limit is reached in the position as loaded
FEN_75_REACHED ==
    SubSeq(FEN_75, 1, Len(FEN_75) - 7) \o <<"1", "5", "0", " ", "1", "0", "0">>

\* the starting position late in a game, eight plies from the 75-move limit
FEN_START_142 ==
    SubSeq(STARTING_FEN, 1, Len(STARTING_FEN) - 3) \o <<"1", "4", "2", " ", "8", "0">>

\* {"q": QUEEN, "r": ROOK, "b": BISHOP, "n": KNIGHT}.get(ch)
PromoOf(ch) ==
    CASE ch = "q" -> QUEEN
      [] ch = "r" -> ROOK
      [] ch = "b" -> BISHOP
      [] ch = "n" -> KNIGHT
      [] OTHER -> None

\* the exception Move.from_uci raises on uci_str, "" when it returns a Move
from_uci_raises(uci_str) ==
    LET InSquareMap(uci_sq) == /\ IsIn(FileChars, uci_sq[1])
                               /\ IsDigit(uci_sq[2]) /\ DigitVal(uci_sq[2]) \in 1..8
    IN  IF Len(uci_str) \notin {4, 5} THEN "ValueError"
        ELSE IF ~InSquareMap(SubSeq(uci_str, 1, 2)) \/ ~InSquareMap(SubSeq(uci_str, 3, 4))
        THEN "KeyError"
        ELSE IF Len(uci_str) = 5 /\ PromoOf(Lower(uci_str[5])) = None THEN "ValueError"
        ELSE ""

\* the Move that Move.from_uci returns when it raises nothing
from_uci(uci_str) ==
    Move(algebraic_to_bitpos(SubSeq(uci_str, 1, 2)),
         algebraic_to_bitpos(SubSeq(uci_str, 3, 4)),
         IF Len(uci_str) = 5 THEN PromoOf(Lower(uci_str[5])) ELSE None)

\* the move written without its promotion letter
to_uci_without_promotion(move) ==
    REVERSE_SQUARE_MAP(move.from_sq) \o REVERSE_SQUARE_MAP(move.to_sq)
to_uci(move) ==
    REVERSE_SQUARE_MAP(move.from_sq) \o REVERSE_SQUARE_MAP(move.to_sq)
    \o (IF move.promotion # None THEN <<PIECE_SYMBOLS[move.promotion + 1]>> ELSE <<>>)

Uci(a, b, c, d) == <<a, b, c, d>>

\* texts handed to Board(fen) and set_from_fen: a king and a rook each way,
\* with the other five fields well formed or not
KINGS_AND_ROOK ==
    <<"4", "k", "3", "/", "8", "/", "8", "/", "8", "/", "8", "/", "8", "/", "8", "/",
    "R", "3", "K", "3">>
FenTexts ==
    {STARTING_FEN,
     KINGS_AND_ROOK \o <<" ", "w", " ", "Q", " ", "-", " ", "0", " ", "1">>,
     \* two blanks with no castling field between them
     KINGS_AND_ROOK \o <<" ", "w", " ", " ", "-", " ", "0", " ", "1">>,
     \* fullmove 0
     KINGS_AND_ROOK \o <<" ", "w", " ", "Q", " ", "-", " ", "0", " ", "0">>,
     \* en passant on the fourth rank
     KINGS_AND_ROOK \o <<" ", "w", " ", "Q", " ", "e", "4", " ", "0", " ", "1">>,
     \* five fields
     KINGS_AND_ROOK \o <<" ", "w", " ", "Q", " ", "-", " ", "0">>,
     \* a first rank of seven squares
     SubSeq(KINGS_AND_ROOK, 1, 19) \o <<"2", " ", "w", " ", "Q", " ", "-", " ", "0", " ", "1">>}

\* texts handed to Move.from_uci
UciTexts ==
    {<<"a", "7", "a", "8">>,
     <<"a", "7", "a", "8", "q">>,
     <<"a", "7", "b", "8", "n">>,
     <<"a", "7", "a", "8", "Q">>,
     <<"a", "7", "a", "8", "k">>,
     <<"a", "7", "a", "9">>,
     <<"a", "7", "a">>,
     <<"a", "7", "a", "8", "q", "q">>}

\* 1.e4 e5 2.Bc4 Nc6 3.Qh5 Nf6 4.Qxf7#
ScholarLine ==
    <<Uci("e", "2", "e", "4"), Uci("e", "7", "e", "5"), Uci("f", "1", "c", "4"),
      Uci("b", "8", "c", "6"), Uci("d", "1", "h", "5"), Uci("g", "8", "f", "6"),
      Uci("h", "5", "f", "7")>>

\* one cycle of the knight shuffle
ShuffleCycle ==
    <<Uci("g", "1", "f", "3"), Uci("g", "8", "f", "6"),
      Uci("f", "3", "g", "1"), Uci("f", "6", "g", "8")>>

\* moves that are never legal in the positions above: a pawn jumping three
\* ranks, a move from a square onto itself
ProbeMoves == {Move(12, 36, None), Move(0, 0, None)}

NoMove == Move(None, None, None)

\* ---------------------------------------------------------------- bounds
\* free moves the caller may play: in the small positions, off a scripted
\* line; ShuffleCycles cycles of the knight shuffle are scripted
MaxFree == 2
LineFree == 1
ShuffleCycles == 4
\* moves that may be played on a copy of the board
CloneFree == 1

RECURSIVE Repeat(_, _)
Repeat(seq, n) == IF n = 0 THEN <<>> ELSE seq \o Repeat(seq, n - 1)

Scenario(fen, script, free) == [fen |-> fen, script |-> script, free |-> free]

\* positions of legal games
Scenarios ==
    {Scenario(STARTING_FEN, <<>>, LineFree),
     Scenario(STARTING_FEN, ScholarLine, LineFree),
     Scenario(STARTING_FEN, Repeat(ShuffleCycle, ShuffleCycles), LineFree),
     Scenario(FEN_CASTLE, <<>>, LineFree),
     Scenario(FEN_CASTLE, <<Uci("e", "1", "g", "1")>>, LineFree),
     Scenario(FEN_OPEN_CASTLE, <<>>, LineFree),
     Scenario(FEN_START_142, Repeat(ShuffleCycle, 2), LineFree),
     Scenario(FEN_EP_PIN, <<>>, MaxFree),
     Scenario(FEN_EP_CHECK, <<>>, MaxFree),
     Scenario(FEN_PROMOTE, <<>>, MaxFree),
     Scenario(FEN_STALEMATE, <<>>, MaxFree),
     Scenario(FEN_75, <<>>, MaxFree)}

\* every FEN that is_valid_fen accepts can be loaded
FenScenarios ==
    Scenarios \cup {Scenario(FEN_KING_F1, <<>>, MaxFree),
                    Scenario(FEN_MATED, <<>>, LineFree),
                    Scenario(FEN_NO_MOVE, <<>>, LineFree),
                    Scenario(FEN_BARE_KINGS, <<>>, LineFree),
                    Scenario(FEN_75_REACHED, <<>>, LineFree)}

\* the positions a text is loaded over
TextScenarios ==
    {Scenario(STARTING_FEN, SubSeq(ScholarLine, 1, 1), LineFree)}

\* the positions that are copied
CopyScenarios ==
    {Scenario(FEN_CASTLE, <<>>, LineFree),
     Scenario(FEN_PROMOTE, <<<<"a", "7", "b", "8", "q">>>>, LineFree),
     Scenario(FEN_EP_CHECK, <<>>, MaxFree)}

UndoScenarios ==
    {Scenario(STARTING_FEN, <<>>, LineFree),
     Scenario(STARTING_FEN, SubSeq(ShuffleCycle, 1, 2), LineFree),
     Scenario(FEN_CASTLE, <<>>, LineFree),
     Scenario(FEN_PROMOTE, <<>>, LineFree),
     Scenario(FEN_ROOK_F1, <<>>, LineFree),
     Scenario(FEN_EP_CHECK, <<>>, MaxFree)}

\* a rational number
Rat(num, den) == <<num, den>>

\* the evaluators and the move-index tables the search is run with
McConfigs == [net : {"flat", "sharp"}, index : {"all", "partial", "none"}]

\* no search has been started; an empty result stands for None
NoSearch ==
    [status |-> "idle", cfg |-> [net |-> "flat", index |-> "all"], num_visits |-> 0,
     done |-> 0, nodes |-> <<>>, evaluated |-> <<>>,
     last |-> [path |-> <<>>, terminal |-> FALSE, value |-> 0],
     result |-> <<>>, raised |-> ""]

\* ---------------------------------------------------------------- state
VARIABLES
    board,          \* the Board object: its fields and caches
    pkg,            \* the package the Board class comes from
    history_stack,  \* chess.Board.history_stack
    ret,            \* what the last call of push returned
    arg,            \* the move the last call of push was given
    script,         \* the moves the caller is still going to play, as UCI text
    free,           \* the number of further moves the caller may choose freely
    line,           \* the current line of play: the move made and the hash reached,
                    \* starting with the initial position
    call,           \* the last call: its name, its text argument, the exception raised
    clone,          \* the copies of the Board that exist (none or one)
    mcts            \* the tree search of the caller: its progress, its tree, its result

vars == <<board, pkg, history_stack, ret, arg, script, free, line, call, clone, mcts>>

\* raised is "" when the call returned
Call(op, text, raised) == [op |-> op, text |-> text, raised |-> raised]

\* Board(fen)
NewBoard(fen, package) ==
    IF (IF package = "chess" THEN Strip(fen) ELSE fen) # STARTING_FEN /\ is_valid_fen(fen)
    THEN set_from_fen(FreshBoard, fen, package)
    ELSE post_init(FreshBoard, package)

\* before is the board as it was when the move was pushed
LineEntry(move, b, before) == [move |-> move, hash |-> b.zobrist_hash, before |-> before]

InitWith(package, scenarios) ==
    \E sc \in scenarios :
        /\ board = NewBoard(sc.fen, package)
        /\ pkg = package
        /\ history_stack = <<>>
        /\ ret = FALSE
        /\ arg = NoMove
        /\ script = sc.script
        /\ free = sc.free
        /\ line = <<LineEntry(NoMove, board, board)>>
        /\ call = Call("Board", sc.fen, "")
        /\ clone = <<>>
        /\ mcts = NoSearch

Init == InitWith("bitboarder", Scenarios)
InitFen == InitWith("bitboarder", FenScenarios)
InitUndo == InitWith("chess", UndoScenarios)
InitText == InitWith("bitboarder", TextScenarios)
InitCopy == InitWith("bitboarder", CopyScenarios)

\* the containers that push changes in place (the caches are assigned anew)
CHANGED_IN_PLACE == {"bitboards", "piece_map", "occupied", "unique_history"}

\* an object that shares the containers named by shared with the object that
\* has just become b: what is changed in place there is changed here too
SeenThrough(own, b, shared) ==
    [field \in DOMAIN own |->
        IF field \in shared \cap CHANGED_IN_PLACE THEN b[field] ELSE own[field]]

\* the copies after the Board has become b
ThroughToClone(clones, b) ==
    [i \in DOMAIN clones |->
        [clones[i] EXCEPT !.board = SeenThrough(@, b, clones[i].shared),
                          !.shared = @ \cap CHANGED_IN_PLACE]]

get_undo_info(b, move) ==
    LET Info(moved_piece, cap) ==
            [from_sq |-> move.from_sq,
             to_sq |-> move.to_sq,
             moved_piece |-> moved_piece,
             captured_piece |-> cap[2],
             capture_sq |-> cap[1],
             promotion_piece |-> move.promotion,
             active_color |-> b.active_color,
             castling_rights |-> b.castling_rights,
             en_passant_square |-> b.en_passant_square,
             halfmove_clock |-> b.halfmove_clock,
             fullmove_count |-> b.fullmove_count,
             zobrist_hash |-> b.zobrist_hash,
             game_state |-> b.game_state]
        Of(moved_piece) == Info(moved_piece, get_captured_piece(b, move, moved_piece))
    IN  Of(PieceAt(b.piece_map, move.from_sq))

\* Board.push(move): the test it makes before it plays the move, and that test
\* without the look at game_state
PushAccepts_any_state(b, move) == is_legal(b, move)
PushAccepts(b, move) == ~(b.game_state # ACTIVE \/ ~is_legal(b, move))

push(move) ==
    /\ arg' = move
    /\ call' = Call("push", <<>>, "")
    /\ IF PushAccepts(board, move)
       THEN /\ board' = make_move(board, move, pkg)
            /\ history_stack' = IF pkg = "chess"
                                THEN Append(history_stack, get_undo_info(board, move))
                                ELSE history_stack
            /\ ret' = TRUE
            /\ line' = Append(line, LineEntry(move, board', board))
            /\ clone' = ThroughToClone(clone, board')
       ELSE /\ ret' = FALSE
            /\ UNCHANGED <<board, history_stack, line, clone>>
    /\ UNCHANGED <<pkg, mcts>>

\* the caller plays the next move of its script
PushScripted ==
    /\ mcts.status = "idle"
    /\ script # <<>>
    /\ push(from_uci(Head(script)))
    /\ script' = Tail(script)
    /\ UNCHANGED free

\* the caller plays a move of its own choice and leaves its script
PushFree(move) ==
    /\ mcts.status = "idle"
    /\ free > 0
    /\ push(move)
    /\ IF PushAccepts(board, move)
       THEN free' = free - 1 /\ script' = <<>>
       ELSE UNCHANGED <<free, script>>

\* chess.Board._undo_castling
undo_castling(b, moved_piece, to_sq) ==
    LET color == ColorOf(moved_piece)
        rook_from == CASE to_sq = 2 -> 0 [] to_sq = 6 -> 7
                       [] to_sq = 58 -> 56 [] to_sq = 62 -> 63 [] OTHER -> None
        rook_to == CASE to_sq = 2 -> 3 [] to_sq = 6 -> 5
                     [] to_sq = 58 -> 59 [] to_sq = 62 -> 61 [] OTHER -> None
    IN  IF KindOf(moved_piece) = KING /\ rook_from # None
           /\ PieceAt(b.piece_map, rook_to) # NoPiece
        THEN [b EXCEPT
                !.bitboards[color][ROOK] = (@ \cap not64(mask(rook_to))) \cup mask(rook_from),
                !.piece_map = [[@ EXCEPT ![rook_to] = NoPiece]
                                  EXCEPT ![rook_from] = b.piece_map[rook_to]],
                !.occupied[color] = (@ \cap not64(mask(rook_to))) \cup mask(rook_from)]
        ELSE b

\* unique_history[h] -= 1 on a defaultdict(int), the key deleted at 0
HistDec(unique_history, h) ==
    IF HistGet(unique_history, h) - 1 = 0
    THEN [x \in DOMAIN unique_history \ {h} |-> unique_history[x]]
    ELSE IF h \in DOMAIN unique_history
    THEN [unique_history EXCEPT ![h] = @ - 1]
    ELSE unique_history @@ (h :> -1)

\* chess.Board.undo with a non-empty history stack
undo_board(b, undo) ==
    LET from_sq == undo.from_sq
        to_sq == undo.to_sq
        moved_type == KindOf(undo.moved_piece)
        color == ColorOf(undo.moved_piece)
        new_type == IF undo.promotion_piece # None /\ undo.promotion_piece # 0
                    THEN undo.promotion_piece ELSE moved_type
        cap_type == KindOf(undo.captured_piece)
        cap_color == ColorOf(undo.captured_piece)
        restored(x) ==
            [x EXCEPT !.active_color = undo.active_color,
                      !.castling_rights = undo.castling_rights,
                      !.en_passant_square = undo.en_passant_square,
                      !.halfmove_clock = undo.halfmove_clock,
                      !.fullmove_count = undo.fullmove_count,
                      !.zobrist_hash = undo.zobrist_hash,
                      !.game_state = undo.game_state]
        uncastled(x) == undo_castling(x, undo.moved_piece, to_sq)
        lifted(x) ==
            [x EXCEPT !.bitboards[color][new_type] = @ \cap not64(mask(to_sq)),
                      !.occupied[color] = @ \cap not64(mask(to_sq)),
                      !.piece_map[to_sq] = NoPiece]
        put_back(x) ==
            [x EXCEPT !.bitboards[color][moved_type] = @ \cup mask(from_sq),
                      !.occupied[color] = @ \cup mask(from_sq),
                      !.piece_map[from_sq] = undo.moved_piece]
        uncaptured(x) ==
            IF undo.captured_piece = NoPiece THEN x
            ELSE [x EXCEPT
                    !.bitboards[cap_color][cap_type] = @ \cup mask(undo.capture_sq),
                    !.occupied[cap_color] = @ \cup mask(undo.capture_sq),
                    !.piece_map[undo.capture_sq] = undo.captured_piece]
        uncounted(x) == [x EXCEPT !.unique_history = HistDec(@, x.zobrist_hash)]
    IN  update_cache(uncounted(uncaptured(put_back(lifted(uncastled(restored(b)))))),
                     "chess")

\* Board.undo(); the bitboarder Board has no undo
Undo ==
    /\ pkg = "chess"
    /\ IF history_stack = <<>>
       THEN UNCHANGED <<board, history_stack, line>>
       ELSE /\ board' = undo_board(board, history_stack[Len(history_stack)])
            /\ history_stack' = SubSeq(history_stack, 1, Len(history_stack) - 1)
            /\ line' = SubSeq(line, 1, Len(line) - 1)
    /\ call' = Call("undo", <<>>, "")
    /\ UNCHANGED <<pkg, ret, arg, script, free, clone, mcts>>

\* fen.split() gives other than six fields: the unpacking raises ValueError
unpack_raises(fen) == Len(Split(Strip(fen))) # 6

\* board.set_from_fen(fen)
SetFromFen(fen) ==
    /\ pkg = "bitboarder"
    /\ IF ~is_valid_fen(fen)
       THEN /\ ret' = FALSE
            /\ call' = Call("set_from_fen", fen, "")
            /\ UNCHANGED <<board, line, script, clone>>
       ELSE IF unpack_raises(fen)
       THEN /\ call' = Call("set_from_fen", fen, "ValueError")
            /\ UNCHANGED <<board, ret, line, script, clone>>
       ELSE /\ board' = set_from_fen(board, fen, pkg)
            /\ ret' = TRUE
            /\ call' = Call("set_from_fen", fen, "")
            /\ line' = <<LineEntry(NoMove, board', board')>>
            /\ script' = <<>>
            /\ clone' = ThroughToClone(clone, board')
    /\ UNCHANGED <<pkg, history_stack, arg, free, mcts>>

\* board = Board(fen): when the constructor raises, the caller keeps the
\* Board it had
Construct(fen) ==
    /\ pkg = "bitboarder"
    /\ IF fen # STARTING_FEN /\ is_valid_fen(fen) /\ unpack_raises(fen)
       THEN /\ call' = Call("Board", fen, "ValueError")
            /\ UNCHANGED <<board, line, script, clone>>
       ELSE /\ board' = NewBoard(fen, pkg)
            /\ call' = Call("Board", fen, "")
            /\ line' = <<LineEntry(NoMove, board', board')>>
            /\ script' = <<>>
            /\ clone' = [i \in DOMAIN clone |-> [clone[i] EXCEPT !.shared = {}]]
    /\ UNCHANGED <<pkg, history_stack, ret, arg, free, mcts>>

\* Move.from_uci(uci_str); arg is the Move it returns
FromUci(uci_str) ==
    /\ call' = Call("from_uci", uci_str, from_uci_raises(uci_str))
    /\ arg' = IF from_uci_raises(uci_str) = "" THEN from_uci(uci_str) ELSE NoMove
    /\ UNCHANGED <<board, pkg, history_stack, ret, script, free, line, clone, mcts>>

\* a copy that is given the piece_map of the Board it was copied from
copy_sharing_containers(b) ==
    [board |-> b, shared |-> {"piece_map"}]
\* a copy that is given the unique_history of the Board it was copied from
copy_sharing_history(b) ==
    [board |-> b, shared |-> {"unique_history"}]
\* Board.copy(): the fields of the new Board, and the containers that are
\* the same objects in both (every list, dict and set is copied, the planes
\* of bitboards and the sets of pseudo_legal_moves one by one)
copy(b) ==
    [board |->
        [active_color |-> b.active_color,
         game_state |-> b.game_state,
         castling_rights |-> b.castling_rights,
         en_passant_square |-> b.en_passant_square,
         halfmove_clock |-> b.halfmove_clock,
         fullmove_count |-> b.fullmove_count,
         zobrist_hash |-> b.zobrist_hash,
         old_en_passant_capturable |-> b.old_en_passant_capturable,
         bitboards |-> b.bitboards,
         piece_map |-> b.piece_map,
         unique_history |-> b.unique_history,
         occupied |-> b.occupied,
         pinned |-> b.pinned,
         check_mask |-> b.check_mask,
         attacked |-> b.attacked,
         pseudo_legal_moves |-> b.pseudo_legal_moves,
         legal_moves |-> b.legal_moves],
     shared |-> {}]

\* c = board.copy()
Copy ==
    /\ pkg = "bitboarder"
    /\ clone = <<>>
    /\ LET Made(c) == clone' = <<[board |-> c.board, shared |-> c.shared, free |-> CloneFree]>>
       IN  Made(copy(board))
    /\ call' = Call("copy", <<>>, "")
    /\ UNCHANGED <<board, pkg, history_stack, ret, arg, script, free, line, mcts>>

\* c.push(move) on the copy
PushClone(move) ==
    /\ clone # <<>>
    /\ clone[1].free > 0
    /\ call' = Call("copy.push", <<>>, "")
    /\ IF PushAccepts(clone[1].board, move)
       THEN LET Pushed(c) ==
                    /\ clone' = <<[clone[1] EXCEPT !.board = c,
                                                   !.shared = @ \cap CHANGED_IN_PLACE,
                                                   !.free = @ - 1]>>
                    /\ board' = SeenThrough(board, c, clone[1].shared)
            IN  Pushed(make_move(clone[1].board, move, pkg))
       ELSE UNCHANGED <<board, clone>>
    /\ UNCHANGED <<pkg, history_stack, ret, arg, script, free, line, mcts>>

\* ---------------------------------------------------------------- tree search
\* white mates with f8g6, stalemates with f8e6, f8d7 and h6g6
FEN_MATE_IN_ONE ==
    <<"5", "N", "1", "k", "/", "7", "P", "/", "7", "K", "/", "8", "/", "8", "/", "8",
    "/", "8", "/", "8", " ", "w", " ", "-", " ", "-", " ", "0", " ", "1">>

\* the king can take the last pawn, which leaves king against king
FEN_LAST_PAWN ==
    <<"7", "k", "/", "8", "/", "8", "/", "8", "/", "8", "/", "8", "/", "1", "p", "6",
    "/", "K", "7", " ", "w", " ", "-", " ", "-", " ", "0", " ", "1">>

\* the largest num_visits a search is called with
MaxVisits == 2

\* the positions searched: they are searched as loaded, or after a push
MctsScenarios ==
    {Scenario(FEN_MATE_IN_ONE, <<Uci("f", "8", "g", "6")>>, LineFree),
     Scenario(FEN_LAST_PAWN, <<>>, LineFree),
     Scenario(FEN_MATED, <<>>, LineFree),
     Scenario(FEN_NO_MOVE, <<>>, LineFree),
     Scenario(FEN_BARE_KINGS, <<>>, LineFree)}

InitMcts == InitWith("bitboarder", MctsScenarios)

\* move_index_dict.get(uci) is not None; the table is an external file: it
\* holds every move, or no move, or every move but those onto the g-file
IsMapped(cfg, uci) ==
    CASE cfg.index = "all" -> TRUE
      [] cfg.index = "none" -> FALSE
      [] cfg.index = "partial" -> uci[3] # "g"

\* the softmax probabilities are multiples of 1/SoftmaxDen
SoftmaxDen == 32

\* policy_probs[idx].item() times SoftmaxDen for the index of uci: the flat
\* network gives every move the same probability, the sharp one gives all
\* but the moves from the f-file a probability that underflows to 0.0
policy_probs(cfg, uci) ==
    IF cfg.net = "flat" THEN 1 ELSE IF uci[1] = "f" THEN 3 ELSE 0

\* value.item()
model_value(cfg, b) ==
    IF cfg.net = "flat" THEN 0 ELSE IF b.active_color = WHITE THEN -1 ELSE 1

\* a node that counts its creation as a visit
Node_already_visited(b, parent, prior) ==
    [board |-> b, parent |-> parent, children |-> {}, prior |-> prior,
     visit_count |-> 1, total_value |-> 0, mean_value |-> Rat(0, 1)]
\* Node(board, parent, prior); parent is <<>> for None, else <<path>>; a
\* node is known by the keys that lead to it from the root
Node(b, parent, prior) ==
    [board |-> b, parent |-> parent, children |-> {}, prior |-> prior,
     visit_count |-> 0, total_value |-> 0, mean_value |-> Rat(0, 1)]

is_leaf(node) == node.children = {}

is_terminal(node) == is_game_over(node.board)

\* the unmapped moves given the raw prior 1
raw_prior_of_one(cfg, uci, num_moves) ==
    IF IsMapped(cfg, uci) THEN policy_probs(cfg, uci) * num_moves
    ELSE SoftmaxDen * num_moves
\* an entry of raw_priors times SoftmaxDen * num_moves
raw_prior(cfg, uci, num_moves) ==
    IF IsMapped(cfg, uci) THEN policy_probs(cfg, uci) * num_moves ELSE SoftmaxDen

\* sum(raw_priors) times SoftmaxDen * num_moves
RECURSIVE total_raw(_, _, _)
total_raw(cfg, moves, num_moves) ==
    IF moves = {} THEN 0
    ELSE LET move == CHOOSE m \in moves : TRUE
         IN  raw_prior(cfg, to_uci(move), num_moves)
                + total_raw(cfg, moves \ {move}, num_moves)

\* the child given the position of its parent
child_board_unpushed(b, move) == copy(b).board
\* child = node.board.copy(); child.push(move)
child_board(b, move) ==
    IF PushAccepts(copy(b).board, move)
    THEN make_move(copy(b).board, move, "bitboarder")
    ELSE copy(b).board

\* the raw priors left as they are
normaliser_of_one(cfg, moves, num_moves) == SoftmaxDen * num_moves
\* total_raw, which the raw priors are divided by, times SoftmaxDen * num_moves
normaliser(cfg, moves, num_moves) == total_raw(cfg, moves, num_moves)

\* Node(child, parent=node, prior=raw_priors[i] / total) for a legal move
expand_child(cfg, nodes, path, move, total) ==
    Node(child_board(nodes[path].board, move), <<path>>,
         Rat(raw_prior(cfg, to_uci(move), Cardinality(nodes[path].board.legal_moves)), total))

\* the tree after node.children[move.to_uci()] is set for every legal move
expand_children(cfg, nodes, path, total) ==
    [p \in DOMAIN nodes \cup {Append(path, to_uci(m)) : m \in nodes[path].board.legal_moves} |->
        IF p = path
        THEN [nodes[path] EXCEPT
                !.children = @ \cup {to_uci(m) : m \in nodes[path].board.legal_moves}]
        ELSE IF Len(p) = Len(path) + 1 /\ SubSeq(p, 1, Len(path)) = path
                /\ \E m \in nodes[path].board.legal_moves : to_uci(m) = p[Len(p)]
        THEN expand_child(cfg, nodes, path,
                          CHOOSE m \in nodes[path].board.legal_moves : to_uci(m) = p[Len(p)],
                          total)
        ELSE nodes[p]]

\* the exception expand(node) raises, "" for none: RuntimeError when no
\* legal move is mapped, ZeroDivisionError when the raw priors sum to 0.0
expand_raises(cfg, node) ==
    IF node.board.legal_moves = {} THEN ""
    ELSE IF (\A m \in node.board.legal_moves : ~IsMapped(cfg, to_uci(m)))
            /\ ~is_terminal(node)
    THEN "RuntimeError"
    ELSE IF normaliser(cfg, node.board.legal_moves,
                       Cardinality(node.board.legal_moves)) = 0
    THEN "ZeroDivisionError"
    ELSE ""

\* expand(node): the exception raised, the tree afterwards, the value returned
expand(cfg, nodes, path) ==
    [raised |-> expand_raises(cfg, nodes[path]),
     nodes |-> IF nodes[path].board.legal_moves = {}
                  \/ expand_raises(cfg, nodes[path]) # ""
               THEN nodes
               ELSE expand_children(cfg, nodes, path,
                        normaliser(cfg, nodes[path].board.legal_moves,
                                   Cardinality(nodes[path].board.legal_moves))),
     value |-> model_value(cfg, nodes[path].board)]

RECURSIVE SumVisits(_, _, _)
SumVisits(nodes, path, keys) ==
    IF keys = {} THEN 0
    ELSE LET k == CHOOSE k \in keys : TRUE
         IN  nodes[Append(path, k)].visit_count + SumVisits(nodes, path, keys \ {k})

\* sum(c.visit_count for c in node.children.values()) or 1
total_visits(nodes, path) ==
    LET OrOne(n) == IF n = 0 THEN 1 ELSE n
    IN  OrOne(SumVisits(nodes, path, nodes[path].children))

RECURSIVE GCD(_, _)
GCD(a, b) == IF b = 0 THEN a ELSE GCD(b, a % b)
Abs(x) == IF x < 0 THEN -x ELSE x

\* x > y * sqrt(t) for integers x, y and t > 0
GreaterThanRoot(x, y, t) ==
    LET g == GCD(Abs(x), Abs(y))
        Reduced(a, b) ==
            IF b <= 0
            THEN a > 0 \/ (b < 0 /\ a * a < t * b * b)
            ELSE a > 0 /\ a * a > t * b * b
    IN  IF g = 0 THEN FALSE ELSE Reduced(x \div g, y \div g)

\* ucb of child c > ucb of child d, where
\* ucb = mean_value + cpuct * prior * sqrt(total_visits) / (1 + visit_count)
\* with cpuct = 1.25, two children of one node (their priors have one
\* denominator), every term multiplied by the positive denominators
ucb_greater(c, d, total) ==
    GreaterThanRoot(
        4 * c.prior[2] * (c.mean_value[1] * d.mean_value[2] - d.mean_value[1] * c.mean_value[2])
          * (1 + c.visit_count) * (1 + d.visit_count),
        5 * (d.prior[1] * (1 + c.visit_count) - c.prior[1] * (1 + d.visit_count))
          * c.mean_value[2] * d.mean_value[2],
        total)

\* the children the loop of select can end with as best_child: the
\* children are visited in the order of a dict filled from a set
best_children(nodes, path) ==
    {k \in nodes[path].children :
        \A other \in nodes[path].children \ {k} :
            ~ucb_greater(nodes[Append(path, other)], nodes[Append(path, k)],
                         total_visits(nodes, path))}

\* select(node): the paths it can return, as the keys from the root
RECURSIVE select(_, _)
select(nodes, path) ==
    IF is_leaf(nodes[path]) \/ is_terminal(nodes[path]) THEN {path}
    ELSE UNION {select(nodes, Append(path, k)) : k \in best_children(nodes, path)}

\* the value added with the same sign all the way up
backprop_one_sided(nodes, path, value) ==
    LET Backed(n, v) ==
            [n EXCEPT !.visit_count = @ + 1, !.total_value = @ + v,
                      !.mean_value = Rat(n.total_value + v, n.visit_count + 1)]
    IN  [p \in DOMAIN nodes |->
            IF Len(p) <= Len(path) /\ p = SubSeq(path, 1, Len(p))
            THEN Backed(nodes[p], value)
            ELSE nodes[p]]
\* backprop(path, value)
backprop(nodes, path, value) ==
    LET Backed(n, v) ==
            [n EXCEPT !.visit_count = @ + 1, !.total_value = @ + v,
                      !.mean_value = Rat(n.total_value + v, n.visit_count + 1)]
    IN  [p \in DOMAIN nodes |->
            IF Len(p) <= Len(path) /\ p = SubSeq(path, 1, Len(p))
            THEN Backed(nodes[p], IF (Len(path) - Len(p)) % 2 = 0 THEN value ELSE -value)
            ELSE nodes[p]]

\* evaluate_terminal(node)
evaluate_terminal(cfg, node) ==
    IF is_checkmate(node.board) THEN [raised |-> "", value |-> -1]
    ELSE IF is_draw(node.board) THEN [raised |-> "", value |-> 0]
    ELSE [raised |-> "ValueError", value |-> 0]

\* root_node = Node(root_board): the Board of the caller is the Board of the
\* root node itself, and the children of the root are pushed on its copies;
\* what a push changes in place in a container the copy shares is changed
\* in the Board of the caller too
root_board(b, nodes) ==
    IF copy(b).shared \cap CHANGED_IN_PLACE = {} \/ nodes[<<>>].children = {}
    THEN b
    ELSE SeenThrough(b, nodes[<<CHOOSE k \in nodes[<<>>].children : TRUE>>].board,
                     copy(b).shared)

\* search(root_board, num_visits) up to the loop
Search(num_visits, cfg) ==
    /\ pkg = "bitboarder"
    /\ mcts.status = "idle"
    /\ \E root \in {(<<>> :> Node(board, <<>>, Rat(0, 1)))} :
          IF is_terminal(root[<<>>])
          THEN /\ mcts' = [mcts EXCEPT !.status = "returned", !.cfg = cfg,
                                       !.num_visits = num_visits, !.nodes = root]
               /\ UNCHANGED board
          ELSE \E e \in {expand(cfg, root, <<>>)} :
                  /\ board' = root_board(board, e.nodes)
                  /\ mcts' = [mcts EXCEPT
                                !.status = IF e.raised = "" THEN "running" ELSE "raised",
                                !.raised = e.raised, !.cfg = cfg,
                                !.num_visits = num_visits,
                                !.nodes = [e.nodes EXCEPT ![<<>>].board = board'],
                                !.evaluated = <<<<>>>>]
    /\ call' = Call("search", <<>>, mcts'.raised)
    /\ UNCHANGED <<pkg, history_stack, ret, arg, script, free, line, clone>>

\* one pass of the loop of search: select, evaluate or expand, backprop
Iterate ==
    /\ mcts.status = "running"
    /\ mcts.done < mcts.num_visits
    /\ \E path \in select(mcts.nodes, <<>>) :
          IF is_terminal(mcts.nodes[path])
          THEN \E t \in {evaluate_terminal(mcts.cfg, mcts.nodes[path])} :
                  mcts' = IF t.raised # ""
                          THEN [mcts EXCEPT !.status = "raised", !.raised = t.raised]
                          ELSE [mcts EXCEPT
                                  !.nodes = backprop(@, path, t.value),
                                  !.done = @ + 1,
                                  !.last = [path |-> path, terminal |-> TRUE,
                                            value |-> t.value]]
          ELSE \E e \in {expand(mcts.cfg, mcts.nodes, path)} :
                  mcts' = IF e.raised # ""
                          THEN [mcts EXCEPT !.status = "raised", !.raised = e.raised,
                                            !.evaluated = Append(@, path)]
                          ELSE [mcts EXCEPT
                                  !.nodes = backprop(e.nodes, path, e.value),
                                  !.done = @ + 1,
                                  !.evaluated = Append(@, path),
                                  !.last = [path |-> path, terminal |-> FALSE,
                                            value |-> e.value]]
    /\ call' = Call("search", <<>>, mcts'.raised)
    /\ UNCHANGED <<board, pkg, history_stack, ret, arg, script, free, line, clone>>

\* every root child taken for a best move
best_moves_of_all(nodes) == nodes[<<>>].children
\* the root children with the highest visit count
best_moves(nodes) ==
    {k \in nodes[<<>>].children :
        \A other \in nodes[<<>>].children :
            nodes[<<other>>].visit_count <= nodes[<<k>>].visit_count}

\* the end of search: max() of no children raises ValueError, else
\* random.choice(best_moves) is returned
Return ==
    /\ mcts.status = "running"
    /\ mcts.done = mcts.num_visits
    /\ IF mcts.nodes[<<>>].children = {}
       THEN mcts' = [mcts EXCEPT !.status = "raised", !.raised = "ValueError"]
       ELSE \E uci \in best_moves(mcts.nodes) :
               mcts' = [mcts EXCEPT !.status = "returned", !.result = uci]
    /\ call' = Call("search", <<>>, mcts'.raised)
    /\ UNCHANGED <<board, pkg, history_stack, ret, arg, script, free, line, clone>>

Next ==
    \/ PushScripted
    \/ \E move \in board.legal_moves \cup ProbeMoves : PushFree(move)

NextUndo ==
    \/ Next
    \/ Undo

NextText ==
    \/ Next
    \/ \E fen \in FenTexts : SetFromFen(fen)
    \/ \E fen \in FenTexts : Construct(fen)
    \/ \E uci_str \in UciTexts : FromUci(uci_str)

NextCopy ==
    \/ Next
    \/ Copy
    \/ \E move \in (IF clone = <<>> THEN {} ELSE clone[1].board.legal_moves) \cup ProbeMoves :
          PushClone(move)

\* the bitboarder Board, from positions of legal games
Spec == Init /\ [][Next]_vars
\* the bitboarder Board, from any FEN it accepts
SpecFen == InitFen /\ [][Next]_vars
\* the chess Board, which has undo
SpecUndo == InitUndo /\ [][NextUndo]_vars
\* the bitboarder Board and Move given texts
SpecText == InitText /\ [][NextText]_vars
NextMcts ==
    \/ Next
    \/ \E num_visits \in 0..MaxVisits, cfg \in McConfigs : Search(num_visits, cfg)
    \/ Iterate
    \/ Return

\* the bitboarder Board and a copy of it
SpecCopy == InitCopy /\ [][NextCopy]_vars
\* the tree search over the bitboarder Board
SpecMcts == InitMcts /\ [][NextMcts]_vars

\* ---------------------------------------------------------------- properties
\* the moves pushed on the current line of play
Played == [i \in 1..(Len(line) - 1) |-> line[i + 1].move]
ScholarMoves == [i \in 1..Len(ScholarLine) |-> from_uci(ScholarLine[i])]
StartHash == build_zobrist([FreshBoard EXCEPT !.piece_map = build_piece_map(StartBitboards)],
                           "bitboarder")

\* the squares, by colour, that a piece map occupies
OccupiedOf(piece_map) ==
    [c \in Colors |-> {sq \in Keys(piece_map) : ColorOf(piece_map[sq]) = c}]

\* The position after a pseudo-legal move, by the rules of chess: the mover
\* leaves its square and arrives (promoted if the move says so), a pawn taken
\* en passant leaves the square behind the destination, a king that moves two
\* files takes its rook along.
PlacementAfter(b, move) ==
    LET mover == b.piece_map[move.from_sq]
        color == ColorOf(mover)
        arrived == <<NewType(move, KindOf(mover)), color>>
        moved == [[b.piece_map EXCEPT ![move.from_sq] = NoPiece] EXCEPT ![move.to_sq] = arrived]
        en_passant == /\ KindOf(mover) = PAWN
                      /\ move.to_sq = b.en_passant_square
                      /\ FileOf(move.to_sq) # FileOf(move.from_sq)
        castles == KindOf(mover) = KING /\ (move.to_sq - move.from_sq) \in {2, -2}
    IN  IF en_passant
        THEN [moved EXCEPT ![move.to_sq + (IF color = WHITE THEN -8 ELSE 8)] = NoPiece]
        ELSE IF castles /\ move.to_sq > move.from_sq
        THEN [[moved EXCEPT ![move.from_sq + 3] = NoPiece]
                 EXCEPT ![move.from_sq + 1] = <<ROOK, color>>]
        ELSE IF castles
        THEN [[moved EXCEPT ![move.from_sq - 4] = NoPiece]
                 EXCEPT ![move.from_sq - 1] = <<ROOK, color>>]
        ELSE moved

\* the mover's king is attacked by an enemy piece after the move
KingAttackedAfter(b, move) ==
    LET color == ColorOf(b.piece_map[move.from_sq])
        placement == PlacementAfter(b, move)
        after == [b EXCEPT !.piece_map = placement, !.occupied = OccupiedOf(placement)]
        king_bb == {sq \in Keys(placement) : placement[sq] = <<KING, color>>}
    IN  king_bb \cap get_all_maps(after)[opp_color(color)] # {}

\* C1: in every position of legal play legal_moves is exactly the set of the
\* pseudo-legal moves of the side to move that do not leave its own king
\* attacked.
LegalMovesAreTheSafeMoves ==
    board.legal_moves =
        {move \in board.pseudo_legal_moves[board.active_color] :
            ~KingAttackedAfter(board, move)}

\* game_state as the position itself classifies
Classification(b) ==
    IF is_in_check(b) /\ b.legal_moves = {} THEN CHECKMATE
    ELSE IF \/ (~is_in_check(b) /\ b.legal_moves = {})
            \/ b.halfmove_clock >= 150
            \/ HistGet(b.unique_history, b.zobrist_hash) >= 5
            \/ is_insufficient_material(b) THEN DRAW
    ELSE ACTIVE

\* C2: after every successful push game_state is the classification of the
\* new position, is_game_over() is is_checkmate() or is_draw(), and after the
\* seven moves of the scholar's mate the position is checkmate and game_state
\* is CHECKMATE.
GameStateIsOfNewPosition ==
    ret =>
        /\ board.game_state = Classification(board)
        /\ is_game_over(board) <=> (is_checkmate(board) \/ is_draw(board))
        /\ Played = ScholarMoves =>
              is_checkmate(board) /\ board.game_state = CHECKMATE

\* C3: push returns true exactly when game_state is ACTIVE and the move is in
\* legal_moves, and a push that returns false changes no field of the board.
PushContract ==
    [][/\ ret' = (board.game_state = ACTIVE /\ arg' \in board.legal_moves)
       /\ ret' = FALSE => board' = board]_vars

\* a legal move was refused because the game is over
PushRefusedGameOver ==
    /\ ret = FALSE
    /\ arg \in board.legal_moves
    /\ board.game_state # ACTIVE

\* C4: the incrementally maintained zobrist_hash equals the hash built from
\* scratch for the same position, and holds the en-passant file key exactly
\* when en passant is set and a pawn of the side to move can capture.
ZobristIsRebuiltHash ==
    /\ board.zobrist_hash = build_zobrist(board, pkg)
    /\ (\E file \in 0..7 : ZOBRIST_EN_PASSANT(file) \subseteq board.zobrist_hash)
          <=> /\ board.en_passant_square # None
              /\ ep_capture_possible(board, board.en_passant_square, board.active_color)

\* C5: after a successful push, a Board built from to_fen() has the same
\* bitboards, occupancy, piece map, active colour, castling rights,
\* en-passant square, clocks and legal moves.
FenRoundTrip ==
    ret =>
        LET rebuilt == NewBoard(to_fen(board), pkg)
        IN  /\ rebuilt.bitboards = board.bitboards
            /\ rebuilt.occupied = board.occupied
            /\ rebuilt.piece_map = board.piece_map
            /\ rebuilt.active_color = board.active_color
            /\ rebuilt.castling_rights = board.castling_rights
            /\ rebuilt.en_passant_square = board.en_passant_square
            /\ rebuilt.halfmove_clock = board.halfmove_clock
            /\ rebuilt.fullmove_count = board.fullmove_count
            /\ rebuilt.legal_moves = board.legal_moves

\* a double push was played while black and white rights are both held
RoundTripAfterDoublePush ==
    /\ ret
    /\ board.en_passant_square # None
    /\ board.castling_rights = 15

\* C7: occupied[c] is the union of the six piece bitboards of colour c, and
\* no square is set in two piece bitboards.
OccupiedIsUnionOfBitboards ==
    /\ \A c \in Colors :
          board.occupied[c] = UNION {board.bitboards[c][k] : k \in Kinds}
    /\ \A c1, c2 \in Colors : \A k1, k2 \in Kinds :
          (<<c1, k1>> # <<c2, k2>>) =>
              board.bitboards[c1][k1] \cap board.bitboards[c2][k2] = {}

\* C8: piece_map has exactly one entry per occupied square, and the entry at
\* a square is (kind, colour) exactly when the square is set in
\* bitboards[colour][kind].
PieceMapMatchesBitboards ==
    /\ Keys(board.piece_map) = board.occupied[WHITE] \cup board.occupied[BLACK]
    /\ \A sq \in Squares : \A c \in Colors : \A k \in Kinds :
          (board.piece_map[sq] = <<k, c>>) <=> (sq \in board.bitboards[c][k])

\* n moves of the knight shuffle have been played from the starting position
OnShuffle(n) ==
    /\ line[1].hash = StartHash
    /\ line[1].before.halfmove_clock = 0
    /\ Len(Played) = n
    /\ \A i \in 1..n : Played[i] = from_uci(ShuffleCycle[((i - 1) % 4) + 1])

\* C9: along the knight shuffle the position after k cycles has the starting
\* hash and repetition count k + 1; is_threefold_repetition() is first true
\* after 2 cycles, with game_state ACTIVE; after 4 cycles
\* is_fivefold_repetition() is true and game_state is DRAW.
ShuffleRepetition ==
    \A n \in 0..16 :
        OnShuffle(n) =>
            /\ HistGet(board.unique_history, board.zobrist_hash) = (n \div 4) + 1
            /\ n % 4 = 0 => board.zobrist_hash = StartHash
            /\ is_threefold_repetition(board) <=> n >= 8
            /\ n = 8 => board.game_state = ACTIVE
            /\ n = 16 => is_fivefold_repetition(board) /\ board.game_state = DRAW

\* the fifth arrival at the starting position
ShuffleFifthArrival ==
    OnShuffle(16) /\ ret /\ board.zobrist_hash = StartHash

\* C10: after any pushes and undos the repetition count of the current
\* position is at least 1 and is the number of positions on the current line
\* of play that have its hash.
RepetitionCountIsLineCount ==
    /\ HistGet(board.unique_history, board.zobrist_hash) >= 1
    /\ HistGet(board.unique_history, board.zobrist_hash) =
          Cardinality({i \in 1..Len(line) : line[i].hash = board.zobrist_hash})

\* C11: undo() after a successful push restores the position exactly: every
\* field and every cache of the board equals its value before the push, for
\* every kind of move.
UndoRestoresPosition ==
    [][(history_stack # <<>>
        /\ history_stack' = SubSeq(history_stack, 1, Len(history_stack) - 1))
       => board' = line[Len(line)].before]_vars

\* a FEN text as the grammar has it: six fields separated by blanks, eight
\* ranks of eight squares, the side w or b, the castling field - or letters
\* of KQkq without repetition, the en-passant field - or a square of rank 3
\* or 6, a halfmove number, a fullmove number of at least 1
GrammarFen(text) ==
    LET Rank(rank) ==
            /\ \A i \in 1..Len(rank) :
                  \/ IsLowerPiece(rank[i]) \/ IsUpperPiece(rank[i])
                  \/ (IsDigit(rank[i]) /\ DigitVal(rank[i]) \in 1..8)
            /\ RankSum(rank) = 8
        Ranks(ranks) == Len(ranks) = 8 /\ \A r \in 1..8 : Rank(ranks[r])
        Castling(field) ==
            \/ field = <<"-">>
            \/ /\ Len(field) >= 1
               /\ \A i \in 1..Len(field) : field[i] \in {"K", "Q", "k", "q"}
               /\ \A i, j \in 1..Len(field) : field[i] = field[j] => i = j
        EnPassant(field) ==
            \/ field = <<"-">>
            \/ Len(field) = 2 /\ IsIn(FileChars, field[1]) /\ field[2] \in {"3", "6"}
        Number(field) == Len(field) >= 1 /\ \A i \in 1..Len(field) : IsDigit(field[i])
        Fields(fields) ==
            /\ Len(fields) = 6
            /\ Ranks(SplitOn(fields[1], "/"))
            /\ fields[2] \in {<<"w">>, <<"b">>}
            /\ Castling(fields[3])
            /\ EnPassant(fields[4])
            /\ Number(fields[5])
            /\ Number(fields[6]) /\ StrToInt(fields[6]) >= 1
    IN  Fields(Split(text))

\* C12: set_from_fen(s) on a text s that is not a well-formed FEN returns
\* false, raises nothing and leaves every field of the board unchanged.
SetFromFenRefusesMalformed ==
    [][(call'.op = "set_from_fen" /\ ~GrammarFen(call'.text))
       => (ret' = FALSE /\ call'.raised = "" /\ board' = board)]_vars

\* C13: Board(s) either represents exactly the FEN text s or fails; for a
\* text that is not a valid FEN it fails and yields no Board of some other
\* position.
ConstructorIsExact ==
    call.op = "Board" =>
        \/ call.raised # ""
        \/ GrammarFen(call.text) /\ to_fen(board) = Strip(call.text)

\* a UCI text as the grammar has it: two squares and an optional promotion
\* letter of q, r, b, n
GrammarUci(text) ==
    LET Square(file, rank) ==
            IsIn(FileChars, file) /\ IsDigit(rank) /\ DigitVal(rank) \in 1..8
    IN  /\ Len(text) \in {4, 5}
        /\ Square(text[1], text[2])
        /\ Square(text[3], text[4])
        /\ Len(text) = 5 => text[5] \in {"q", "r", "b", "n"}

\* C14: Move.from_uci(s) gives a Move exactly when s is two valid squares
\* and an optional promotion letter of q, r, b, n, and never raises.
FromUciContract ==
    call.op = "from_uci" =>
        /\ call.raised = ""
        /\ arg # NoMove <=> GrammarUci(call.text)

\* C15: every legal move of a reachable position is given back by
\* Move.from_uci from its to_uci() text, and distinct legal moves of one
\* position have distinct texts.
UciRoundTrip ==
    /\ \A move \in board.legal_moves :
          /\ from_uci_raises(to_uci(move)) = ""
          /\ from_uci(to_uci(move)) = move
    /\ \A m1, m2 \in board.legal_moves : to_uci(m1) = to_uci(m2) => m1 = m2

\* after a push the side to move can promote to a knight or a queen
RoundTripOfPromotions ==
    /\ ret
    /\ \E m1, m2 \in board.legal_moves :
          /\ m1.promotion = KNIGHT /\ m2.promotion = QUEEN
          /\ m1.from_sq = m2.from_sq /\ m1.to_sq = m2.to_sq

\* C16: right after c = p.copy() every field of c equals that of p; a push
\* on c leaves every field of p unchanged, and a push on p leaves every
\* field of c unchanged.
CloneIsIndependent ==
    [][/\ (clone = <<>> /\ clone' # <<>>) => clone'[1].board = board'
       /\ call'.op = "copy.push" => board' = board
       /\ (call'.op = "push" /\ clone # <<>>) => clone'[1].board = clone[1].board]_vars

\* the copy and the original have both been pushed and stand apart
CloneAndBoardDiverged ==
    /\ clone # <<>>
    /\ clone[1].free < CloneFree
    /\ ret
    /\ call.op = "push"
    /\ clone[1].board.piece_map # board.piece_map

\* the last call was a push that returned true; Last is the move it played
\* and Before the board it was played on
LastPush == ret /\ call.op = "push"
Last == line[Len(line)].move
Before == line[Len(line)].before
Mover == PieceAt(Before.piece_map, Last.from_sq)

\* the right a king needs to castle onto to_sq, 0 when to_sq is no castling
\* destination; the corner the rook leaves and the square it arrives on
RightFor(to_sq) ==
    CASE to_sq = 6 -> W_KINGSIDE [] to_sq = 2 -> W_QUEENSIDE
      [] to_sq = 62 -> B_KINGSIDE [] to_sq = 58 -> B_QUEENSIDE [] OTHER -> 0
CornerFor(to_sq) == CASE to_sq = 6 -> 7 [] to_sq = 2 -> 0 [] to_sq = 62 -> 63 [] to_sq = 58 -> 56
RookSquareFor(to_sq) == CASE to_sq = 6 -> 5 [] to_sq = 2 -> 3 [] to_sq = 62 -> 61 [] to_sq = 58 -> 59

\* the last push moved a king from e1 or e8 two files with the right held
LastPushCastled ==
    /\ LastPush
    /\ Mover # NoPiece
    /\ KindOf(Mover) = KING
    /\ Last.from_sq = (IF ColorOf(Mover) = WHITE THEN 4 ELSE 60)
    /\ Last.to_sq \in {Last.from_sq + 2, Last.from_sq - 2}
    /\ HasBit(Before.castling_rights, RightFor(Last.to_sq))

Empty(b, sq) ==
    /\ b.piece_map[sq] = NoPiece
    /\ sq \notin AllOccupied(b)
    /\ \A c \in Colors : \A k \in Kinds : sq \notin b.bitboards[c][k]

Holds(b, sq, kind, color) ==
    /\ b.piece_map[sq] = <<kind, color>>
    /\ sq \in b.occupied[color]
    /\ sq \in b.bitboards[color][kind]

\* C17: after a successful push of a castling move the king stands on its
\* destination, the rook of the matching corner on f1/d1/f8/d8, the corner
\* and the e-file square are empty, both rights of the mover are cleared and
\* those of the opponent are unchanged; from the position with all four
\* rights e1g1 leaves kq.
CastlingPush ==
    LastPushCastled =>
        LET color == ColorOf(Mover)
            own == IF color = WHITE THEN {W_KINGSIDE, W_QUEENSIDE}
                   ELSE {B_KINGSIDE, B_QUEENSIDE}
        IN  /\ Holds(board, Last.to_sq, KING, color)
            /\ Before.piece_map[CornerFor(Last.to_sq)] = <<ROOK, color>>
                  => Holds(board, RookSquareFor(Last.to_sq), ROOK, color)
            /\ Empty(board, CornerFor(Last.to_sq))
            /\ Empty(board, Last.from_sq)
            /\ \A right \in {W_KINGSIDE, W_QUEENSIDE, B_KINGSIDE, B_QUEENSIDE} :
                  HasBit(board.castling_rights, right)
                     <=> (right \notin own /\ HasBit(Before.castling_rights, right))
            /\ (to_fen(Before) = FEN_CASTLE /\ Last = Move(4, 6, None))
                  => castling_to_str(board.castling_rights) = <<"k", "q">>

\* black has castled queenside after white castled kingside
BlackCastledQueenside ==
    /\ LastPushCastled
    /\ Last = Move(60, 58, None)
    /\ Before.piece_map[56] = <<ROOK, BLACK>>
    /\ Before.castling_rights = 3

\* the last push moved a pawn diagonally onto the en-passant square
LastPushEnPassant ==
    /\ LastPush
    /\ Mover # NoPiece
    /\ KindOf(Mover) = PAWN
    /\ Last.to_sq = Before.en_passant_square
    /\ FileOf(Last.to_sq) # FileOf(Last.from_sq)

\* C18: after a successful push of an en-passant capture the enemy pawn one
\* rank behind the destination is gone from its bitboard, occupied and
\* piece_map, the capturing pawn stands on the en-passant square, its origin
\* is empty and halfmove_clock is 0; after any other capture the piece that
\* is gone is the one that stood on the destination.
CapturePush ==
    /\ LastPushEnPassant =>
          LET color == ColorOf(Mover)
              behind == Last.to_sq + (IF color = WHITE THEN -8 ELSE 8)
          IN  /\ Before.piece_map[behind] = <<PAWN, opp_color(color)>> => Empty(board, behind)
              /\ Holds(board, Last.to_sq, PAWN, color)
              /\ Empty(board, Last.from_sq)
              /\ board.halfmove_clock = 0
    /\ (LastPush /\ ~LastPushEnPassant /\ Before.piece_map[Last.to_sq] # NoPiece) =>
          LET taken == Before.piece_map[Last.to_sq]
          IN  /\ Keys(board.piece_map) = Keys(Before.piece_map) \ {Last.from_sq}
              /\ Last.to_sq \notin board.bitboards[ColorOf(taken)][KindOf(taken)]
              /\ Last.to_sq \notin board.occupied[ColorOf(taken)]
              /\ ColorOf(board.piece_map[Last.to_sq]) = ColorOf(Mover)

\* a pawn has been taken en passant
PawnTakenEnPassant ==
    /\ LastPushEnPassant
    /\ Before.piece_map[Last.to_sq + (IF ColorOf(Mover) = WHITE THEN -8 ELSE 8)]
          = <<PAWN, opp_color(ColorOf(Mover))>>

\* a move of a pawn of b onto its promotion rank
OntoPromotionRank(b, move) ==
    /\ PieceAt(b.piece_map, move.from_sq) # NoPiece
    /\ KindOf(b.piece_map[move.from_sq]) = PAWN
    /\ move.to_sq \in PAWN_PROMOTION_RANK[ColorOf(b.piece_map[move.from_sq])]

\* C19: in pseudo-legal and legal moves a pawn move onto the promotion rank
\* appears only as the four moves promoting to ROOK, BISHOP, KNIGHT and
\* QUEEN, and no other move carries a promotion; after the push of such a
\* move the destination holds the promoted kind in the mover's colour and
\* no pawn stands on the origin or on rank 1 or rank 8.
PromotionPush ==
    /\ \A moves \in {board.legal_moves, board.pseudo_legal_moves[WHITE],
                      board.pseudo_legal_moves[BLACK]} :
          \A move \in moves :
             IF OntoPromotionRank(board, move)
             THEN /\ move.promotion \in PromotionKinds
                  /\ \A promo \in PromotionKinds :
                        Move(move.from_sq, move.to_sq, promo) \in moves
             ELSE move.promotion = None
    /\ (LastPush /\ OntoPromotionRank(Before, Last)) =>
          /\ Holds(board, Last.to_sq, Last.promotion, ColorOf(Mover))
          /\ Last.promotion \in PromotionKinds
          /\ Empty(board, Last.from_sq)
          /\ \A c \in Colors : board.bitboards[c][PAWN] \cap ((0..7) \cup (56..63)) = {}
          /\ \A sq \in (0..7) \cup (56..63) :
                board.piece_map[sq] = NoPiece \/ KindOf(board.piece_map[sq]) # PAWN

\* a pawn has promoted to a knight by taking on b8
PromotedByCapture ==
    /\ LastPush
    /\ OntoPromotionRank(Before, Last)
    /\ Last = Move(48, 57, KNIGHT)
    /\ Before.piece_map[57] = <<KNIGHT, BLACK>>

\* a draw can be claimed: the 50-move or the threefold condition holds
Claimable(b) ==
    \/ b.halfmove_clock \in 100..149
    \/ HistGet(b.unique_history, b.zobrist_hash) \in {3, 4}

\* what C20 says of a position
StaysActive(b) ==
    /\ b.halfmove_clock \in 100..149 => is_50_move_rule(b)
    /\ HistGet(b.unique_history, b.zobrist_hash) \in {3, 4} => is_threefold_repetition(b)
    /\ b.game_state = ACTIVE
    /\ \A move \in b.legal_moves : PushAccepts(b, move)

NoMateNoDeadPosition(b) ==
    ~is_checkmate(b) /\ ~is_stalemate(b) /\ ~is_insufficient_material(b)

\* C20 as stated: in a reachable position where halfmove_clock is in 100..149
\* or the repetition count is 3 or 4, without checkmate, stalemate or
\* insufficient material, the claimable-draw queries are true, game_state is
\* ACTIVE and a legal move can still be pushed.
ClaimableDrawStaysActive ==
    (Claimable(board) /\ NoMateNoDeadPosition(board)) => StaysActive(board)

\* C20 amended: the same in the positions where, besides, halfmove_clock is
\* below 150 and the repetition count is below 5.
ClaimableDrawStaysActiveBelowLimits ==
    (/\ Claimable(board)
     /\ NoMateNoDeadPosition(board)
     /\ board.halfmove_clock < 150
     /\ HistGet(board.unique_history, board.zobrist_hash) < 5) => StaysActive(board)

\* a push has led to a fourth occurrence of a position in a game still on
FourthOccurrenceReached ==
    /\ LastPush
    /\ HistGet(board.unique_history, board.zobrist_hash) = 4
    /\ NoMateNoDeadPosition(board)
    /\ board.halfmove_clock < 150
    /\ board.legal_moves # {}

\* the position is terminal: checkmate or one of the draw conditions
TrulyTerminal(b) == is_checkmate(b) \/ is_draw(b)

\* C21: search on a terminal root position, loaded from FEN or reached by
\* pushes, returns none for every num_visits, without raising and without
\* running an iteration or calling the evaluator.
TerminalRootReturnsNone ==
    (mcts.status # "idle" /\ TrulyTerminal(board)) =>
        /\ mcts.status = "returned"
        /\ mcts.result = <<>>
        /\ mcts.done = 0
        /\ mcts.evaluated = <<>>

\* C22: in an iteration whose selected leaf holds a terminal position the
\* value backed up is -1 for a checkmated side to move and 0 for a draw, and
\* the evaluator is not called for the leaf; a leaf that is not terminal is
\* expanded and gives the value of the network.
TerminalLeafValue ==
    mcts.done > 0 =>
        LET leaf == mcts.nodes[mcts.last.path]
            NotEvaluated == \A i \in DOMAIN mcts.evaluated : mcts.evaluated[i] # mcts.last.path
        IN  IF is_checkmate(leaf.board)
            THEN mcts.last.value = -1 /\ mcts.last.terminal /\ NotEvaluated
            ELSE IF is_draw(leaf.board)
            THEN mcts.last.value = 0 /\ mcts.last.terminal /\ NotEvaluated
            ELSE /\ ~mcts.last.terminal
                 /\ mcts.last.value = model_value(mcts.cfg, leaf.board)

\* C23: after search(p, n) on a non-terminal p the visit counts of the
\* children of the root sum to n and the visit count of the root is n; the
\* expansion of the root adds no visit.
RootVisitsSumToN ==
    (mcts.status \in {"running", "returned"} /\ ~TrulyTerminal(board)) =>
        /\ SumVisits(mcts.nodes, <<>>, mcts.nodes[<<>>].children) = mcts.done
        /\ mcts.nodes[<<>>].visit_count = mcts.done
        /\ mcts.status = "returned" => mcts.done = mcts.num_visits

\* a search of MaxVisits visits has returned a move after reaching depth 2
SearchReturnedFromDepthTwo ==
    /\ mcts.status = "returned"
    /\ mcts.result # <<>>
    /\ mcts.num_visits = MaxVisits
    /\ mcts.nodes[<<>>].visit_count = MaxVisits
    /\ \E p \in DOMAIN mcts.nodes : Len(p) = 2

RECURSIVE SumPriors(_, _, _)
SumPriors(nodes, path, keys) ==
    IF keys = {} THEN 0
    ELSE LET k == CHOOSE k \in keys : TRUE
         IN  nodes[Append(path, k)].prior[1] + SumPriors(nodes, path, keys \ {k})

\* C24: after the expansion of a node with a legal move the prior of every
\* child lies in [0, 1] and the priors of the children sum to 1, whether
\* all or only some of the legal moves are in the move index.
PriorsSumToOne ==
    \A p \in DOMAIN mcts.nodes :
        mcts.nodes[p].children # {} =>
            /\ \A k \in mcts.nodes[p].children :
                  LET prior == mcts.nodes[Append(p, k)].prior
                  IN  prior[2] > 0 /\ 0 <= prior[1] /\ prior[1] <= prior[2]
                      /\ prior[2] = mcts.nodes[Append(p, CHOOSE c \in mcts.nodes[p].children : TRUE)].prior[2]
            /\ SumPriors(mcts.nodes, p, mcts.nodes[p].children)
                  = mcts.nodes[Append(p, CHOOSE c \in mcts.nodes[p].children : TRUE)].prior[2]

\* a node has been expanded with some of its moves in the index, some not,
\* and one of them with a probability of zero
PartlyMappedExpanded ==
    /\ mcts.status = "running"
    /\ mcts.cfg = [net |-> "sharp", index |-> "partial"]
    /\ \E k \in mcts.nodes[<<>>].children : ~IsMapped(mcts.cfg, k)
    /\ \E k \in mcts.nodes[<<>>].children :
          IsMapped(mcts.cfg, k) /\ mcts.nodes[<<k>>].prior[1] = 0
    /\ \E k \in mcts.nodes[<<>>].children :
          IsMapped(mcts.cfg, k) /\ mcts.nodes[<<k>>].prior[1] > 0

\* C25: for a non-terminal root, search returns the UCI string of a legal
\* move of the root position whose child has the highest visit count of
\* all the children of the root.
ReturnsMostVisitedLegalMove ==
    (mcts.status = "returned" /\ ~TrulyTerminal(board)) =>
        /\ mcts.result # <<>>
        /\ from_uci_raises(mcts.result) = ""
        /\ from_uci(mcts.result) \in board.legal_moves
        /\ mcts.result \in mcts.nodes[<<>>].children
        /\ \A k \in mcts.nodes[<<>>].children :
              mcts.nodes[<<k>>].visit_count <= mcts.nodes[<<mcts.result>>].visit_count

\* a move has been returned whose child was visited more than another
MostVisitedReturned ==
    /\ mcts.status = "returned"
    /\ mcts.result # <<>>
    /\ mcts.nodes[<<mcts.result>>].visit_count = MaxVisits
    /\ \E k \in mcts.nodes[<<>>].children : mcts.nodes[<<k>>].visit_count = 0

\* the node the evaluator was called for last
LastEvaluated == mcts.nodes[mcts.evaluated[Len(mcts.evaluated)]]

\* C26: the expansion of a non-terminal node none of whose legal moves has
\* a policy index aborts the search with an error and attaches no child;
\* when only some have none the expansion succeeds, and before the
\* normalisation an unmapped move has the raw prior 1/num_legal_moves and a
\* mapped move its softmax probability.
ExpandAndMoveIndex ==
    mcts.evaluated # <<>> =>
        LET legal_moves == LastEvaluated.board.legal_moves
            num_moves == Cardinality(legal_moves)
            keys == {to_uci(m) : m \in legal_moves}
            child(k) == mcts.nodes[Append(mcts.evaluated[Len(mcts.evaluated)], k)]
        IN  /\ (num_moves > 0 /\ \A k \in keys : ~IsMapped(mcts.cfg, k)) =>
                  /\ mcts.status = "raised"
                  /\ mcts.raised = "RuntimeError"
                  /\ LastEvaluated.children = {}
            /\ mcts.raised = "RuntimeError" =>
                  (num_moves > 0 /\ \A k \in keys : ~IsMapped(mcts.cfg, k))
            /\ (/\ \E k \in keys : ~IsMapped(mcts.cfg, k)
                /\ \E k \in keys : IsMapped(mcts.cfg, k) /\ policy_probs(mcts.cfg, k) > 0) =>
                  /\ mcts.status # "raised"
                  /\ LastEvaluated.children = keys
                  /\ \A u, v \in keys :
                        \* prior(u) / prior(v) = raw(u) / raw(v)
                        LET raw_num(k) == IF IsMapped(mcts.cfg, k)
                                          THEN policy_probs(mcts.cfg, k) * num_moves
                                          ELSE SoftmaxDen
                        IN  child(u).prior[1] * raw_num(v) = child(v).prior[1] * raw_num(u)

\* the search has been aborted at a node below the root none of whose
\* moves is in the index, after the root was expanded with some that are
AbortedBelowPartlyMappedRoot ==
    /\ mcts.status = "raised"
    /\ mcts.raised = "RuntimeError"
    /\ mcts.cfg.index = "partial"
    /\ Len(mcts.evaluated) > 1
    /\ mcts.nodes[<<>>].children # {}
    /\ \E k \in mcts.nodes[<<>>].children : ~IsMapped(mcts.cfg, k)

\* the cells of a plane that hold 1.0
Ones(tensor, plane) ==
    {<<r, c>> \in (0..7) \X (0..7) : tensor[<<plane, r, c>>] = 1}

\* the cell of a square in the piece planes: row r holds rank 7 - r
CellOf(sq) == <<7 - (sq \div 8), sq % 8>>

\* C27: in to_tensor(), with row r standing for rank 7 - r as in the piece
\* planes, each castling plane 13..16 holds a single 1.0 at the cell of the
\* home square of its rook (h1, a1, h8, a8) iff the right is held, and is
\* all zeros otherwise.
CastlingPlanes ==
    LET Planes(tensor) ==
            /\ \A sq \in Squares :
                  (board.piece_map[sq] = <<ROOK, WHITE>>) <=> (CellOf(sq) \in Ones(tensor, 3))
            /\ Ones(tensor, 13) = IF HasBit(board.castling_rights, W_KINGSIDE)
                                  THEN {CellOf(7)} ELSE {}
            /\ Ones(tensor, 14) = IF HasBit(board.castling_rights, W_QUEENSIDE)
                                  THEN {CellOf(0)} ELSE {}
            /\ Ones(tensor, 15) = IF HasBit(board.castling_rights, B_KINGSIDE)
                                  THEN {CellOf(63)} ELSE {}
            /\ Ones(tensor, 16) = IF HasBit(board.castling_rights, B_QUEENSIDE)
                                  THEN {CellOf(56)} ELSE {}
    IN  Planes(to_tensor(board))

\* a pawn of the side to move takes en passant: it moves diagonally onto
\* the en-passant square
TakesEnPassant(b, move) ==
    /\ b.piece_map[move.from_sq] = <<PAWN, b.active_color>>
    /\ move.to_sq = b.en_passant_square
    /\ FileOf(move.to_sq) # FileOf(move.from_sq)

\* C28: an en-passant capture is in legal_moves only if, with the capturing
\* pawn on the en-passant square and the captured pawn removed, the mover's
\* king is not attacked; in particular it is not legal when the two pawns
\* are the only pieces between the king and an enemy rook or queen on
\* their rank.
EnPassantKeepsKingSafe ==
    \A move \in board.legal_moves :
        TakesEnPassant(board, move) => ~KingAttackedAfter(board, move)

\* the pieces of the other side that attack the king of the side to move
Checkers(b) ==
    {sq \in Keys(b.piece_map) :
        /\ ColorOf(b.piece_map[sq]) = opp_color(b.active_color)
        /\ b.bitboards[b.active_color][KING] \cap get_map(b, sq) # {}}

\* the move takes the checker, on its square or en passant, or lands
\* strictly between the king and a sliding checker
ResolvesCheck(b, move, checker_sq) ==
    \/ move.to_sq = checker_sq
    \/ /\ TakesEnPassant(b, move)
       /\ b.piece_map[checker_sq] = <<PAWN, opp_color(b.active_color)>>
       /\ checker_sq = move.to_sq + (IF b.active_color = WHITE THEN -8 ELSE 8)
    \/ /\ KindOf(b.piece_map[checker_sq]) \in Sliders
       /\ move.to_sq \in ray_between(lsb(b.bitboards[b.active_color][KING]), checker_sq)

\* C29: when the side to move is in check, every legal move of a piece
\* other than the king resolves the check: there is exactly one checker
\* and the move captures it (on its square, or en passant when it is the
\* pawn that just advanced two squares) or lands strictly between the king
\* and a sliding checker; with two or more checkers only king moves are
\* legal.
LegalMovesResolveCheck ==
    \A move \in board.legal_moves :
        (Checkers(board) # {} /\ KindOf(board.piece_map[move.from_sq]) # KING)
            => /\ Cardinality(Checkers(board)) = 1
               /\ \A checker_sq \in Checkers(board) : ResolvesCheck(board, move, checker_sq)

\* the step of one square, as <<file, rank>>, that leads from a towards b
\* when they share a rank, a file or a diagonal; <<0, 0>> when they do not
StepTowards(a, b) ==
    LET Sgn(x) == IF x > 0 THEN 1 ELSE IF x < 0 THEN -1 ELSE 0
        Of(df, dr) == IF df = 0 \/ dr = 0 \/ Abs(df) = Abs(dr)
                      THEN <<Sgn(df), Sgn(dr)>> ELSE <<0, 0>>
    IN  Of(FileOf(b) - FileOf(a), RankOf(b) - RankOf(a))

\* how many king steps apart two squares are
Apart(a, b) == Max({Abs(FileOf(b) - FileOf(a)), Abs(RankOf(b) - RankOf(a))})

\* the squares strictly between a and b on their common line
StrictlyBetween(a, b) ==
    {x \in Squares : /\ StepTowards(a, b) # <<0, 0>>
                     /\ StepTowards(a, x) = StepTowards(a, b)
                     /\ Apart(a, x) < Apart(a, b)}

\* a piece of this kind slides along the line through a and b
SlidesAlong(kind, a, b) ==
    LET Of(step) == /\ step # <<0, 0>>
                    /\ kind \in IF step[1] = 0 \/ step[2] = 0
                                THEN {ROOK, QUEEN} ELSE {BISHOP, QUEEN}
    IN  Of(StepTowards(a, b))

\* sq holds the only piece between the king of color and an enemy slider
\* that runs along their line, and that piece is of color
IsPinned(b, color, sq) ==
    /\ PieceAt(b.piece_map, sq) # NoPiece
    /\ ColorOf(b.piece_map[sq]) = color
    /\ \E king_sq \in b.bitboards[color][KING], slider_sq \in b.occupied[opp_color(color)] :
          /\ SlidesAlong(KindOf(b.piece_map[slider_sq]), slider_sq, king_sq)
          /\ StrictlyBetween(slider_sq, king_sq) \cap AllOccupied(b) = {sq}

\* C30: a piece is in pinned[c] iff it is of colour c and is the only piece
\* strictly between the king of c and an enemy rook, bishop or queen that
\* slides along that line; and every legal move of a pinned piece ends on
\* the ray from the king that its origin is on.
PinnedStayOnTheirRay ==
    /\ \A color \in Colors : board.pinned[color] = {sq \in Squares : IsPinned(board, color, sq)}
    /\ \A move \in board.legal_moves :
          move.from_sq \in board.pinned[board.active_color]
             => \A king_sq \in board.bitboards[board.active_color][KING] :
                   /\ StepTowards(king_sq, move.to_sq) # <<0, 0>>
                   /\ StepTowards(king_sq, move.to_sq) = StepTowards(king_sq, move.from_sq)

\* a pinned knight of the side to move has pseudo-legal moves onto the
\* check mask and no legal move
PinnedKnightHasNoMove ==
    \E sq \in board.pinned[board.active_color] :
       /\ board.piece_map[sq] = <<KNIGHT, board.active_color>>
       /\ \E move \in board.pseudo_legal_moves[board.active_color] :
             move.from_sq = sq /\ move.to_sq \in board.check_mask
       /\ \A move \in board.legal_moves : move.from_sq # sq

\* a piece of color attacks the square in the position as it stands
AttackedBy(b, color, sq) ==
    \E from_sq \in Keys(b.piece_map) :
       ColorOf(b.piece_map[from_sq]) = color /\ sq \in get_map(b, from_sq)

\* the king of the side to move goes two files along its rank
IsCastling(b, move) ==
    /\ b.piece_map[move.from_sq] = <<KING, b.active_color>>
    /\ RankOf(move.to_sq) = RankOf(move.from_sq)
    /\ Abs(FileOf(move.to_sq) - FileOf(move.from_sq)) = 2

\* what castling asks of the side to move with its king on home (e1 or
\* e8): king not in check, right held, squares up to the rook empty, the
\* two squares the king crosses and lands on not attacked
MayCastle(b, home, kingside) ==
    LET Asks(right, empty, path) ==
            /\ ~AttackedBy(b, opp_color(b.active_color), home)
            /\ HasBit(b.castling_rights, right)
            /\ empty \cap AllOccupied(b) = {}
            /\ \A sq \in path : ~AttackedBy(b, opp_color(b.active_color), sq)
    IN  IF kingside
        THEN Asks(IF b.active_color = WHITE THEN W_KINGSIDE ELSE B_KINGSIDE,
                   {home + 1, home + 2}, {home + 1, home + 2})
        ELSE Asks(IF b.active_color = WHITE THEN W_QUEENSIDE ELSE B_QUEENSIDE,
                   {home - 1, home - 2, home - 3}, {home - 1, home - 2})

LastWasDoublePush ==
    /\ Len(line) > 1
    /\ Mover # NoPiece
    /\ KindOf(Mover) = PAWN
    /\ Abs(RankOf(Last.to_sq) - RankOf(Last.from_sq)) = 2

\* C32: after every successful push en_passant_square is set iff the move
\* just played was a pawn advancing two ranks, and then it is the square the
\* pawn passed over; after any other move it is none, so that an en-passant
\* capture is offered only in reply to the double push.
EnPassantSquareFollowsDoublePush ==
    /\ Len(line) > 1 =>
          IF LastWasDoublePush
          THEN /\ board.en_passant_square # None
               /\ FileOf(board.en_passant_square) = FileOf(Last.from_sq)
               /\ 2 * RankOf(board.en_passant_square)
                     = RankOf(Last.from_sq) + RankOf(Last.to_sq)
          ELSE board.en_passant_square = None
    /\ \A move \in board.pseudo_legal_moves[board.active_color] \cup board.legal_moves :
          (Len(line) > 1 /\ TakesEnPassant(board, move))
             => /\ LastWasDoublePush
                /\ Last.to_sq = move.to_sq + (IF board.active_color = WHITE THEN -8 ELSE 8)

\* a push that is no double push has followed a double push and cleared
\* the en-passant square
EnPassantSquareCleared ==
    /\ LastPush
    /\ Before.en_passant_square # None
    /\ ~LastWasDoublePush
    /\ board.en_passant_square = None

\* p leads to a node on the way from the root to the node of path
OnPath(p, path) == Len(p) <= Len(path) /\ p = SubSeq(path, 1, Len(p))

\* the two fractions are the same number
SameNumber(x, y) == x[2] # 0 /\ y[2] # 0 /\ x[1] * y[2] = y[1] * x[2]

\* an iteration has backed up mcts'.last.value along mcts'.last.path: the
\* relation between the tree before and the tree after
BackedUp ==
    LET path == mcts'.last.path
        Signed(p) == IF (Len(path) - Len(p)) % 2 = 0
                     THEN mcts'.last.value ELSE -mcts'.last.value
    IN  \A p \in DOMAIN mcts.nodes :
           IF OnPath(p, path)
           THEN /\ mcts'.nodes[p].visit_count = mcts.nodes[p].visit_count + 1
                /\ mcts'.nodes[p].total_value = mcts.nodes[p].total_value + Signed(p)
                /\ SameNumber(mcts'.nodes[p].mean_value,
                              Rat(mcts'.nodes[p].total_value, mcts'.nodes[p].visit_count))
           ELSE mcts'.nodes[p] = mcts.nodes[p]

\* C33: backing up a value v along the selection path n_0 .. n_k adds 1 to
\* the visit count of every n_i and (-1)^(k-i) * v to its total value and
\* sets its mean value to total value / visit count; the nodes off the
\* path stay as they are.  So mean value = total value / visit count in
\* every node that has been visited.
BackupAlongPath ==
    /\ [][(mcts.status = "running" /\ mcts'.done = mcts.done + 1) => BackedUp]_vars
    /\ [](\A p \in DOMAIN mcts.nodes :
            mcts.nodes[p].visit_count > 0
               => SameNumber(mcts.nodes[p].mean_value,
                             Rat(mcts.nodes[p].total_value, mcts.nodes[p].visit_count)))

\* a value other than 0 has been backed up from below the root, to nodes
\* visited before
SignedValueBackedUp ==
    /\ mcts.done > 1
    /\ mcts.last.value # 0
    /\ Len(mcts.last.path) > 0
    /\ mcts.nodes[<<>>].total_value # 0

\* the node at path p .. key is what expanding the node at p makes for the
\* legal move: a clone of the position with the move pushed and accepted
IsChildFor(nodes, p, move) ==
    LET Pushed(key) ==
            /\ key \in DOMAIN nodes
            /\ PushAccepts(copy(nodes[p].board).board, move)
            /\ nodes[key].board = make_move(copy(nodes[p].board).board, move, "bitboarder")
            /\ nodes[key].board.piece_map = PlacementAfter(nodes[p].board, move)
            /\ nodes[key].board.active_color = opp_color(nodes[p].board.active_color)
            /\ nodes[key].parent = <<p>>
    IN  Pushed(Append(p, to_uci(move)))

\* C34: after a node is expanded the keys of its children are exactly the
\* UCI texts of the legal moves of its position, one child for each legal
\* move; the position of each child is a clone of the position of the node
\* with that move pushed successfully, its parent is the node; and the
\* expansion leaves the position of the node as it was.
ExpansionMakesTheChildren ==
    /\ [](\A p \in DOMAIN mcts.nodes :
            mcts.nodes[p].children # {}
               => /\ mcts.nodes[p].children
                       = {to_uci(m) : m \in mcts.nodes[p].board.legal_moves}
                  /\ Cardinality(mcts.nodes[p].children)
                       = Cardinality(mcts.nodes[p].board.legal_moves)
                  /\ \A m \in mcts.nodes[p].board.legal_moves :
                        IsChildFor(mcts.nodes, p, m))
    /\ [][\A p \in DOMAIN mcts.nodes :
             p \in DOMAIN mcts'.nodes /\ mcts'.nodes[p].board = mcts.nodes[p].board]_vars

\* a node below the root has been expanded and has a child for each of
\* the four promotions of a pawn
PromotionsExpanded ==
    \E p \in DOMAIN mcts.nodes :
       /\ p # <<>>
       /\ \E m \in mcts.nodes[p].board.legal_moves :
             /\ m.promotion = QUEEN
             /\ {to_uci([m EXCEPT !.promotion = k]) : k \in PromotionKinds}
                    \subseteq mcts.nodes[p].children

\* the pseudo-legal king moves of the side to move, which the rebuild of
\* legal_moves plays and takes back on the board itself
SimulatedKingMoves(b) ==
    {move \in b.pseudo_legal_moves[b.active_color] :
        b.piece_map[move.from_sq] = <<KING, b.active_color>>}

\* C35: rebuilding the caches, with every pseudo-legal king move played
\* and taken back in place, with or without a capture, leaves bitboards,
\* occupied and piece_map as they were, and the attacked maps left in the
\* cache are those of the position itself.
RebuildRestoresTheBoard ==
    /\ board.attacked = get_all_maps(board)
    /\ \A move \in SimulatedKingMoves(board) :
          is_king_safe_after_move(board, move.from_sq, move.to_sq,
                                  board.active_color).board = board

\* after a push the king of the side to move can take a piece, and that
\* move is not legal because the square is defended
KingCaptureSimulated ==
    /\ LastPush
    /\ \E move \in SimulatedKingMoves(board) \ board.legal_moves :
          PieceAt(board.piece_map, move.to_sq) # NoPiece

\* every move a caller can build
AnyMove ==
    {Move(from_sq, to_sq, promotion) :
        from_sq \in Squares, to_sq \in Squares,
        promotion \in {None, QUEEN, ROOK, BISHOP, KNIGHT}}

Terminal(b) == is_checkmate(b) \/ is_draw(b)

\* C36: terminal positions are absorbing: where is_checkmate() or is_draw()
\* is true, whether the position was loaded from FEN or reached by pushes,
\* push returns false for every move and the position never changes again.
TerminalIsAbsorbing ==
    /\ [](Terminal(board) => \A move \in AnyMove : ~PushAccepts(board, move))
    /\ [][Terminal(board) => board' = board /\ (call'.op = "push" => ~ret')]_vars

\* a push was refused in a position that a push had drawn with moves left
PushRefusedAfterDrawingPush ==
    /\ call.op = "push" /\ ~ret
    /\ Len(line) > 1
    /\ is_draw(board) /\ board.legal_moves # {}
    /\ arg \in board.legal_moves

\* a push was refused in a checkmate that was loaded
PushRefusedInLoadedMate ==
    /\ call.op = "push" /\ ~ret
    /\ Len(line) = 1
    /\ is_checkmate(board)

\* C37: in a game from the starting position halfmove_clock never passes 150
\* and no repetition count passes 5, and a push that brings the clock to 150
\* or a count to 5 leaves game_state DRAW: no game goes on past the 75-move
\* or the fivefold limit.
NoGamePastTheLimits ==
    /\ board.halfmove_clock <= 150
    /\ \A h \in DOMAIN board.unique_history : board.unique_history[h] <= 5
    /\ (LastPush /\ (\/ board.halfmove_clock = 150
                     \/ HistGet(board.unique_history, board.zobrist_hash) = 5))
          => board.game_state = DRAW

\* a push has brought the clock from 149 to 150 in a position seen before,
\* with moves left to play
ClockRunOutByPush ==
    /\ LastPush
    /\ Before.halfmove_clock = 149 /\ board.halfmove_clock = 150
    /\ HistGet(board.unique_history, board.zobrist_hash) \in 2..4
    /\ board.legal_moves # {}

\* the colour a castling right belongs to, and the home squares of its king
\* and its rook
RightColor(right) == IF right \in {W_KINGSIDE, W_QUEENSIDE} THEN WHITE ELSE BLACK
RightKingHome(right) == IF RightColor(right) = WHITE THEN 4 ELSE 60
RightRookHome(right) ==
    CASE right = W_KINGSIDE -> 7 [] right = W_QUEENSIDE -> 0
      [] right = B_KINGSIDE -> 63 [] right = B_QUEENSIDE -> 56

CastlingRights == {W_KINGSIDE, W_QUEENSIDE, B_KINGSIDE, B_QUEENSIDE}

\* C38: in a game from the starting position castling rights only ever lose
\* bits, and a right that is held has its king and its rook at home: the
\* right goes when the king moves, when the rook leaves its corner and when
\* the rook is captured on its corner.
CastlingRightsOnlyShrink ==
    /\ [](\A right \in CastlingRights :
            HasBit(board.castling_rights, right) =>
                /\ Holds(board, RightKingHome(right), KING, RightColor(right))
                /\ Holds(board, RightRookHome(right), ROOK, RightColor(right)))
    /\ [][\A right \in CastlingRights :
            HasBit(board'.castling_rights, right) => HasBit(board.castling_rights, right)]_vars

\* the rook on a1 was captured while White could castle both ways, and White
\* can still castle kingside
RookTakenOnItsCorner ==
    /\ LastPush
    /\ Last.to_sq = 0
    /\ Before.piece_map[0] = <<ROOK, WHITE>>
    /\ Before.castling_rights \in {12, 15}
    /\ ~HasBit(board.castling_rights, W_QUEENSIDE)
    /\ HasBit(board.castling_rights, W_KINGSIDE)

\* C39: search never changes the root position of its caller: over every
\* step of search, to its return or to the exception that ends it, every
\* field of the Board, the caches, the repetition counts and game_state
\* among them, keeps its value, for every num_visits.
SearchLeavesRootAlone ==
    /\ [][call'.op = "search" => board' = board]_vars
    /\ [](mcts.status # "idle" => mcts.nodes[<<>>].board = board)

\* search has returned a move for a position reached by a push, after it
\* pushed a move on a copy of the root for each of its children
SearchReturnedAfterPushes ==
    /\ mcts.status = "returned"
    /\ Len(line) > 1
    /\ mcts.result \in mcts.nodes[<<>>].children
    /\ \A k \in mcts.nodes[<<>>].children :
          /\ mcts.nodes[<<k>>].board.unique_history # board.unique_history
          /\ mcts.nodes[<<k>>].board.piece_map # board.piece_map

\* C40: visit counts are conserved in the tree after every iteration: the
\* visit count of the root is the sum of the visit counts of its children,
\* that of any other node with children is 1 plus that sum, and a node other
\* than the root with visit count 0 has no children.
VisitsConserved ==
    mcts.status # "idle" =>
        \A p \in DOMAIN mcts.nodes :
            /\ p = <<>> =>
                  mcts.nodes[p].visit_count = SumVisits(mcts.nodes, p, mcts.nodes[p].children)
            /\ (p # <<>> /\ mcts.nodes[p].children # {}) =>
                  mcts.nodes[p].visit_count
                     = 1 + SumVisits(mcts.nodes, p, mcts.nodes[p].children)
            /\ (p # <<>> /\ mcts.nodes[p].visit_count = 0) => mcts.nodes[p].children = {}

====
